---- MODULE Spec2Model ----
(***************************************************************************)
(* Model of backend-svc/storage/db_storage.go: the DBStorage methods over  *)
(* the users, courses, tasks and user_progress tables.  Every request is   *)
(* handled by an independent worker; a method that issues several          *)
(* statements is one action per statement, so that other workers'          *)
(* statements interleave between them.                                     *)
(***************************************************************************)
EXTENDS Integers, Sequences, FiniteSets, Bags, TLC

\* ------------------------------------------------------------------ bounds
MaxTime == 7
MaxUsers == 2
MaxTasks == 3

\* ------------------------------------------------------- program constants
OTPLifetime == 5
BcryptMaxLen == 72

\* ------------------------------------------------------------------ inputs
Workers == {"w1", "w2"}
UserIds == 1..MaxUsers
ArgUserIds == 1..(MaxUsers + 1)
Usernames == {"alice", "bob"}
Emails == {"a@x.com", "b@x.com"}
Codes == {<<>>, <<1>>, <<2>>}
Salts == {"s1", "s2"}

\* A nullable column: Null, or Some(v).
Null == <<>>
Some(v) == <<v>>
IsNull(x) == x = <<>>
Val(x) == x[1]

VARIABLES
    users,      \* users table: id -> row, committed state
    courses,    \* courses table: id -> row
    tasks,      \* tasks table: id -> row
    progress,   \* user_progress table: bag of <<user_id, task_id>>
    now,        \* the wall clock read by time.Now()
    pc,         \* per worker: the statement it is about to run
    call,       \* per worker: arguments and locals of the running method
    tx,         \* per worker: the sql.Tx of the running method
    leaked,     \* transactions neither committed nor rolled back at return
    res,        \* the method that returned last: what it returned and saw
    lastSave    \* history: per user, the clock read and the arguments of
                \* the SaveOTPCode call whose UPDATE ran last

vars ==
    <<users, courses, tasks, progress, now, pc, call, tx, leaked, res,
      lastSave>>

Procs == DOMAIN pc

NoCall == [op |-> "none"]
NoRes == [op |-> "none"]
NoTx == [st |-> "none"]

\* ------------------------------------------------------------ store rules
\* Rows whose write lock is held by a transaction that is still open.
LockedRows ==
    {tx[p].uid : p \in {q \in Procs : tx[q].st = "open" /\ tx[q].lock}}
        \cup {t.uid : t \in {l \in leaked : l.lock}}

\* A statement run outside a transaction waits for the row lock.
CanWrite(u) == u \notin LockedRows

\* The email an open transaction has written, "" if none.
PendingEmail(t) ==
    IF t.lock /\ "email" \in DOMAIN t.w THEN t.w["email"] ELSE ""

\* users(email UNIQUE): the index entries held by the transactions, other
\* than p's, that are still open: the email each has written and the one
\* it has replaced.  A statement that needs one of them waits.
HeldEmails(p) ==
    UNION {{PendingEmail(tx[q]), users[tx[q].uid].email} :
            q \in {r \in Procs \ {p} :
                     tx[r].st = "open" /\ tx[r].lock
                        /\ PendingEmail(tx[r]) # ""}}
        \cup UNION {{l.email, users[l.uid].email} :
                    l \in {k \in leaked : k.email # ""}}

\* An INSERT whose username is stored fails on the username key at once;
\* otherwise it waits while an open transaction holds its email.
InsertCanProceed(p, user) ==
    \/ \E i \in DOMAIN users : users[i].username = user.username
    \/ user.email \notin HeldEmails(p)

\* UPDATE users SET ... WHERE id = u: no row matches a missing id.
UpdateWhereID(tbl, u, row) ==
    IF u \in DOMAIN tbl THEN [tbl EXCEPT ![u] = row] ELSE tbl

\* --------------------------------------------------------- OTP challenge
ExpiresAt_OneMore(t) == t + OTPLifetime + 1

\* time.Now().Add(5 * time.Minute)
ExpiresAt(t) == t + OTPLifetime

SetOTP_KeepsWindow(row, code, expiresAt) ==
    [row EXCEPT !.otpCode = Some(code),
                !.otpExpiresAt = IF IsNull(@) THEN Some(expiresAt) ELSE @]

SetOTP_CodeOnly(row, code, expiresAt) ==
    [row EXCEPT !.otpCode = Some(code)]

SetOTP_IfAbsent(row, code, expiresAt) ==
    IF IsNull(row.otpCode)
    THEN [row EXCEPT !.otpCode = Some(code),
                     !.otpExpiresAt = Some(expiresAt)]
    ELSE row

\* UPDATE users SET otp_code = ?, otp_expires_at = ?
SetOTP(row, code, expiresAt) ==
    [row EXCEPT !.otpCode = Some(code), !.otpExpiresAt = Some(expiresAt)]

ClearOTP_CodeOnly(row) == [row EXCEPT !.otpCode = Null]

\* UPDATE users SET otp_code = NULL, otp_expires_at = NULL
ClearOTP(row) == [row EXCEPT !.otpCode = Null, !.otpExpiresAt = Null]

\* Scan(&storedCode, &expiresAt) into a string and a time.Time:
\* database/sql refuses to convert NULL into either.
ScanOTP(row) ==
    IF IsNull(row.otpCode) \/ IsNull(row.otpExpiresAt)
    THEN [err |-> "scan"]
    ELSE [err |-> "none", storedCode |-> Val(row.otpCode),
          expiresAt |-> Val(row.otpExpiresAt)]

After_OrEqual(t, u) == t >= u

\* time.Time.After
After(t, u) == t > u

\* subtle.ConstantTimeCompare: 0 on a length mismatch, otherwise the OR of
\* the bytewise differences is compared with 0.
RECURSIVE DiffBytes(_, _, _)
DiffBytes(x, y, i) ==
    IF i > Len(x) THEN 0
    ELSE (IF x[i] # y[i] THEN 1 ELSE 0) + DiffBytes(x, y, i + 1)

ConstantTimeCompare(x, y) ==
    IF Len(x) # Len(y) THEN 0
    ELSE IF DiffBytes(x, y, 1) = 0 THEN 1 ELSE 0

\* The decision of VerifyOTPCode once the row is scanned and the clock read.
VerifyDecision(code, storedCode, expiresAt, t) ==
    IF After(t, expiresAt) THEN FALSE
    ELSE ConstantTimeCompare(code, storedCode) = 1

\* ----------------------------------------------------------------- users
\* INSERT INTO users (username, password_hash, email, full_name,
\* totp_secret, is_2fa_enabled, is_active): is_active is the literal true,
\* the columns not listed take the schema's defaults.
NewUserRow_CandidateStatus(user) ==
    [username |-> user.username, passwordHash |-> user.passwordHash,
     email |-> user.email, fullName |-> user.fullName,
     totpSecret |-> user.totpSecret, is2FAEnabled |-> user.is2FAEnabled,
     isActive |-> user.isActive, isAdmin |-> FALSE, lastLogin |-> Null,
     otpCode |-> Null, otpExpiresAt |-> Null]

NewUserRow(user) ==
    [username |-> user.username, passwordHash |-> user.passwordHash,
     email |-> user.email, fullName |-> user.fullName,
     totpSecret |-> user.totpSecret, is2FAEnabled |-> user.is2FAEnabled,
     isActive |-> TRUE, isAdmin |-> FALSE, lastLogin |-> Null,
     otpCode |-> Null, otpExpiresAt |-> Null]

UserExists_UsernameOnly(tbl, user) ==
    \E i \in DOMAIN tbl : tbl[i].username = user.username

\* SELECT EXISTS(SELECT 1 FROM users WHERE username = ? OR email = ?)
UserExists(tbl, user) ==
    \E i \in DOMAIN tbl :
        tbl[i].username = user.username \/ tbl[i].email = user.email

UniqueViolation_UsernameKeyOnly(tbl, user) ==
    \E i \in DOMAIN tbl : tbl[i].username = user.username

\* users(username UNIQUE, email UNIQUE)
UniqueViolation(tbl, user) ==
    \E i \in DOMAIN tbl :
        tbl[i].username = user.username \/ tbl[i].email = user.email

\* AUTO_INCREMENT id
NextUserID(tbl) == Cardinality(DOMAIN tbl) + 1

InsertUser(tbl, user) == tbl @@ (NextUserID(tbl) :> NewUserRow(user))

Candidate(name, email, active) ==
    [username |-> name, email |-> email, passwordHash |-> "h0",
     fullName |-> "n0", totpSecret |-> "", is2FAEnabled |-> FALSE,
     isActive |-> active]

\* ------------------------------------------------------------- bookkeeping
Finish(p, r) ==
    /\ pc' = [pc EXCEPT ![p] = "idle"]
    /\ call' = [call EXCEPT ![p] = NoCall]
    /\ res' = r @@ [p |-> p]

Goto(p, label, c) ==
    /\ pc' = [pc EXCEPT ![p] = label]
    /\ call' = [call EXCEPT ![p] = c]
    /\ UNCHANGED res

Idle(p) == pc[p] = "idle"

\* ----------------------------------------------------------------- actions
Tick ==
    /\ now < MaxTime
    /\ now' = now + 1
    /\ UNCHANGED <<users, courses, tasks, progress, pc, call, tx, leaked,
                   res, lastSave>>

\* SaveOTPCode, line 309: the expiry is computed from the clock first.
SaveOTPCode_Begin(p, uids, codes) ==
    /\ Idle(p)
    /\ \E u \in uids, code \in codes :
        Goto(p, "SaveOTPCode_exec",
             [op |-> "SaveOTPCode", uid |-> u, code |-> code, t0 |-> now,
              expiresAt |-> ExpiresAt(now)])
    /\ UNCHANGED <<users, courses, tasks, progress, now, tx, leaked,
                   lastSave>>

\* What a SaveOTPCode call that returns nil did, in the terms of the
\* contract: whether a row was written, the challenge it wrote, the code it
\* replaced, and whether the challenge it replaced came from a call that
\* read the clock after this one did.
Saved(c) ==
    IF c.uid \in DOMAIN users
    THEN [stored |-> TRUE, code |-> c.code, expiresAt |-> c.expiresAt,
          replaced |-> users[c.uid].otpCode,
          overtook |-> ~IsNull(users[c.uid].otpCode)
                          /\ lastSave[c.uid].at > c.t0]
    ELSE [stored |-> FALSE]

\* SaveOTPCode, lines 311-318: prepare and execute the UPDATE.
SaveOTPCode_Exec(p) ==
    /\ pc[p] = "SaveOTPCode_exec"
    /\ LET c == call[p]
       IN \E fault \in BOOLEAN :
          LET r == [op |-> "SaveOTPCode", uid |-> c.uid, fault |-> fault]
          IN
            IF fault
            THEN /\ Finish(p, r @@ [err |-> "store", stored |-> FALSE])
                 /\ UNCHANGED <<users, lastSave>>
            ELSE /\ CanWrite(c.uid)
                 /\ users' = IF c.uid \in DOMAIN users
                             THEN UpdateWhereID(users, c.uid,
                                    SetOTP(users[c.uid], c.code, c.expiresAt))
                             ELSE users
                 /\ lastSave' = IF c.uid \in DOMAIN users
                                THEN [lastSave EXCEPT ![c.uid] =
                                        [at |-> c.t0, code |-> c.code,
                                         expiresAt |-> c.expiresAt]]
                                ELSE lastSave
                 /\ Finish(p, r @@ [err |-> "none"] @@ Saved(c))
    /\ UNCHANGED <<courses, tasks, progress, now, tx, leaked>>

\* What a VerifyOTPCode call saw, in the terms of the contract: whether the
\* user had a challenge pending, whether the supplied code is the stored
\* one, the time elapsed since the challenge was issued, whether the
\* challenge it read is one a single SaveOTPCode wrote (or none at all),
\* whether the stored challenge was replaced before it returned, and
\* whether the call that returned before it was a verification for the
\* same user that returned true.
Seen(issued, code, row, t) ==
    [found |-> TRUE,
     pending |-> ~IsNull(row.otpCode) /\ ~IsNull(row.otpExpiresAt),
     empty |-> row.otpCode = Some(<<>>),
     same |-> row.otpCode = Some(code),
     late |-> ~IsNull(row.otpExpiresAt) /\ t > Val(row.otpExpiresAt),
     elapsed |-> IF IsNull(row.otpCode) THEN 0 ELSE t - issued.at,
     whole |-> (IsNull(row.otpCode) /\ IsNull(row.otpExpiresAt))
                \/ (row.otpCode = Some(issued.code)
                    /\ row.otpExpiresAt = Some(issued.expiresAt)),
     replaced |-> FALSE, again |-> FALSE]

NotFound ==
    [found |-> FALSE, pending |-> FALSE, empty |-> FALSE, same |-> FALSE,
     late |-> FALSE, elapsed |-> 0, whole |-> TRUE, replaced |-> FALSE,
     again |-> FALSE]

\* VerifyOTPCode, lines 325-342: select and scan the row.
VerifyOTPCode_Query(p, uids, codes) ==
    /\ Idle(p)
    /\ \E u \in uids, code \in codes, fault \in BOOLEAN :
        LET r == [op |-> "VerifyOTPCode", uid |-> u]
        IN IF fault
           THEN Finish(p, r @@ [ok |-> FALSE, err |-> "store"] @@ NotFound)
           ELSE IF u \notin DOMAIN users
           THEN Finish(p, r @@ [ok |-> FALSE, err |-> "none"] @@ NotFound)
           ELSE LET s == ScanOTP(users[u])
                IN IF s.err # "none"
                   THEN Finish(p, r @@ [ok |-> FALSE, err |-> s.err]
                                    @@ Seen(lastSave[u], code, users[u], now))
                   ELSE IF s.storedCode = <<>>
                   THEN Finish(p, r @@ [ok |-> FALSE, err |-> "none"]
                                    @@ Seen(lastSave[u], code, users[u], now))
                   ELSE Goto(p, "VerifyOTPCode_check",
                             [op |-> "VerifyOTPCode", uid |-> u,
                              code |-> code, row |-> users[u],
                              issued |-> lastSave[u],
                              storedCode |-> s.storedCode,
                              expiresAt |-> s.expiresAt])
    /\ UNCHANGED <<users, courses, tasks, progress, now, tx, leaked,
                   lastSave>>

VerifyOTPCode_Check_Consuming(p) ==
    /\ pc[p] = "VerifyOTPCode_check"
    /\ LET c == call[p]
           ok == VerifyDecision(c.code, c.storedCode, c.expiresAt, now)
       IN /\ Finish(p, [op |-> "VerifyOTPCode", uid |-> c.uid, ok |-> ok,
                        err |-> "none"]
                        @@ Seen(c.issued, c.code, c.row, now))
          /\ users' = IF ok
                      THEN UpdateWhereID(users, c.uid, ClearOTP(users[c.uid]))
                      ELSE users
    /\ UNCHANGED <<courses, tasks, progress, now, tx, leaked, lastSave>>

\* VerifyOTPCode, lines 344-348: read the clock, compare.
VerifyOTPCode_Check(p) ==
    /\ pc[p] = "VerifyOTPCode_check"
    /\ LET c == call[p]
       IN Finish(p, [op |-> "VerifyOTPCode", uid |-> c.uid,
                     ok |-> VerifyDecision(c.code, c.storedCode,
                                           c.expiresAt, now),
                     err |-> "none"]
                    @@ [Seen(c.issued, c.code, c.row, now) EXCEPT
                            !.replaced = users[c.uid] # c.row,
                            !.again = /\ res.op = "VerifyOTPCode"
                                      /\ res.ok /\ res.uid = c.uid])
    /\ UNCHANGED <<users, courses, tasks, progress, now, tx, leaked,
                   lastSave>>

ClearOTPCode(p, uids) ==
    /\ Idle(p)
    /\ \E u \in uids, fault \in BOOLEAN :
        LET r == [op |-> "ClearOTPCode", uid |-> u, fault |-> fault]
        IN IF fault
           THEN /\ Finish(p, r @@ [err |-> "store"])
                /\ UNCHANGED users
           ELSE /\ CanWrite(u)
                /\ users' = IF u \in DOMAIN users
                            THEN UpdateWhereID(users, u, ClearOTP(users[u]))
                            ELSE users
                /\ Finish(p, r @@ [err |-> "none"])
    /\ UNCHANGED <<courses, tasks, progress, now, tx, leaked, lastSave>>

\* What a CreateUser call met, in the terms of the contract: whether a row
\* with the candidate's username or email was stored.
Taken(user) ==
    \E i \in DOMAIN users :
        users[i].username = user.username \/ users[i].email = user.email

CreateResult(user, err, fault, existed) ==
    [op |-> "CreateUser", name |-> user.username, email |-> user.email,
     err |-> err, fault |-> fault, existed |-> existed,
     raced |-> ~existed /\ Taken(user), added |-> 0, unchanged |-> TRUE,
     stored |-> FALSE]

\* CreateUser, lines 209-223: the existence check.
CreateUser_Check(p, names, emails, actives) ==
    /\ Idle(p)
    /\ \E name \in names, email \in emails, active \in actives,
          fault \in BOOLEAN :
        LET user == Candidate(name, email, active)
        IN IF fault
           THEN Finish(p, CreateResult(user, "store", TRUE, Taken(user)))
           ELSE IF UserExists(users, user)
           THEN Finish(p, CreateResult(user, "conflict", FALSE, Taken(user)))
           ELSE Goto(p, "CreateUser_insert",
                     [op |-> "CreateUser", user |-> user,
                      existed |-> Taken(user)])
    /\ UNCHANGED <<users, courses, tasks, progress, now, tx, leaked,
                   lastSave>>

\* CreateUser, lines 225-243: the INSERT.
CreateUser_Insert(p) ==
    /\ pc[p] = "CreateUser_insert"
    /\ LET c == call[p]
       IN \E fault \in BOOLEAN :
            IF fault
            THEN /\ Finish(p, CreateResult(c.user, "store", TRUE, c.existed))
                 /\ UNCHANGED users
            ELSE IF UniqueViolation(users, c.user)
            THEN /\ InsertCanProceed(p, c.user)
                 /\ Finish(p, CreateResult(c.user, "store", FALSE, c.existed))
                 /\ UNCHANGED users
            ELSE /\ InsertCanProceed(p, c.user)
                 /\ Cardinality(DOMAIN users) < MaxUsers
                 /\ users' = InsertUser(users, c.user)
                 /\ Finish(p, [CreateResult(c.user, "none", FALSE, c.existed)
                        EXCEPT
                        !.added = Cardinality(DOMAIN users') -
                                  Cardinality(DOMAIN users),
                        !.unchanged = (users' = users),
                        !.stored =
                            /\ \A i \in DOMAIN users : users'[i] = users[i]
                            /\ \E i \in DOMAIN users' \ DOMAIN users :
                                /\ users'[i].username = c.user.username
                                /\ users'[i].email = c.user.email])
    /\ UNCHANGED <<courses, tasks, progress, now, tx, leaked, lastSave>>

\* ------------------------------------------------------------ flag updates
\* One UPDATE users SET ... WHERE id = ? outside a transaction.
ExecUpdate(p, op, u, tbl) ==
    \E fault \in BOOLEAN :
        IF fault
        THEN /\ Finish(p, [op |-> op, uid |-> u, err |-> "store",
                           fault |-> TRUE])
             /\ UNCHANGED users
        ELSE /\ CanWrite(u)
             /\ users' = tbl
             /\ Finish(p, [op |-> op, uid |-> u, err |-> "none",
                           fault |-> FALSE])

SetColumn_EveryRow(tbl, u, col, v) ==
    [i \in DOMAIN tbl |->
        [f \in DOMAIN tbl[i] |-> IF f = col THEN v ELSE tbl[i][f]]]

SetColumn_Upsert(tbl, u, col, v) ==
    [i \in DOMAIN tbl \cup {u} |->
        [f \in DOMAIN tbl[1] |->
            IF i = u /\ f = col THEN v
            ELSE IF i \in DOMAIN tbl THEN tbl[i][f] ELSE tbl[1][f]]]

\* SET col = v WHERE id = u: an id without a row matches nothing.
SetColumn(tbl, u, col, v) ==
    IF u \in DOMAIN tbl
    THEN [tbl EXCEPT ![u] =
            [f \in DOMAIN @ |-> IF f = col THEN v ELSE @[f]]]
    ELSE tbl

\* lines 417-426
UpdateUserLastLogin(p, uids) ==
    /\ Idle(p)
    /\ \E u \in uids :
        ExecUpdate(p, "UpdateUserLastLogin", u,
                   SetColumn(users, u, "lastLogin", Some(now)))
    /\ UNCHANGED <<courses, tasks, progress, now, tx, leaked, lastSave>>

Enable2FA_ClearsChallenge(p, uids) ==
    /\ Idle(p)
    /\ \E u \in uids :
        ExecUpdate(p, "Enable2FA", u,
                   SetColumn(SetColumn(users, u, "is2FAEnabled", TRUE),
                             u, "otpCode", Null))
    /\ UNCHANGED <<courses, tasks, progress, now, tx, leaked, lastSave>>

\* lines 429-438
Enable2FA(p, uids) ==
    /\ Idle(p)
    /\ \E u \in uids :
        ExecUpdate(p, "Enable2FA", u,
                   SetColumn(users, u, "is2FAEnabled", TRUE))
    /\ UNCHANGED <<courses, tasks, progress, now, tx, leaked, lastSave>>

\* lines 633-642
UpdateUserStatus(p, uids) ==
    /\ Idle(p)
    /\ \E u \in uids, isActive \in BOOLEAN :
        ExecUpdate(p, "UpdateUserStatus", u,
                   SetColumn(users, u, "isActive", isActive))
    /\ UNCHANGED <<courses, tasks, progress, now, tx, leaked, lastSave>>

PromoteToAdmin_Toggle(p, uids) ==
    /\ Idle(p)
    /\ \E u \in uids :
        ExecUpdate(p, "PromoteToAdmin", u,
                   SetColumn(users, u, "isAdmin",
                             u \in DOMAIN users /\ ~users[u].isAdmin))
    /\ UNCHANGED <<courses, tasks, progress, now, tx, leaked, lastSave>>

\* lines 645-654
PromoteToAdmin(p, uids) ==
    /\ Idle(p)
    /\ \E u \in uids :
        ExecUpdate(p, "PromoteToAdmin", u,
                   SetColumn(users, u, "isAdmin", TRUE))
    /\ UNCHANGED <<courses, tasks, progress, now, tx, leaked, lastSave>>

\* lines 657-666
DemoteFromAdmin(p, uids) ==
    /\ Idle(p)
    /\ \E u \in uids :
        ExecUpdate(p, "DemoteFromAdmin", u,
                   SetColumn(users, u, "isAdmin", FALSE))
    /\ UNCHANGED <<courses, tasks, progress, now, tx, leaked, lastSave>>

IsAdminOutcome_ActiveOnly(tbl, u) ==
    IF u \notin DOMAIN tbl
    THEN [isAdmin |-> FALSE, err |-> "user not found"]
    ELSE [isAdmin |-> tbl[u].isAdmin /\ tbl[u].isActive, err |-> "none"]

IsAdminOutcome_FalseNoError(tbl, u) ==
    IF u \notin DOMAIN tbl
    THEN [isAdmin |-> FALSE, err |-> "none"]
    ELSE [isAdmin |-> tbl[u].isAdmin, err |-> "none"]

\* SELECT is_admin FROM users WHERE id = ? scanned into a bool: no row is
\* sql.ErrNoRows, returned as false with errors.New("user not found").
IsAdminOutcome(tbl, u) ==
    IF u \notin DOMAIN tbl
    THEN [isAdmin |-> FALSE, err |-> "user not found"]
    ELSE [isAdmin |-> tbl[u].isAdmin, err |-> "none"]

\* lines 441-458: a failing Prepare or query returns false with the
\* store's error as it is.
IsAdmin(p, uids) ==
    /\ Idle(p)
    /\ \E u \in uids, fault \in BOOLEAN :
        LET r == [op |-> "IsAdmin", uid |-> u, fault |-> fault,
                  found |-> u \in DOMAIN users]
        IN IF fault
           THEN Finish(p, r @@ [isAdmin |-> FALSE, err |-> "store"])
           ELSE Finish(p, r @@ IsAdminOutcome(users, u))
    /\ UNCHANGED <<users, courses, tasks, progress, now, tx, leaked,
                   lastSave>>

\* ------------------------------------------------------------ user reads
\* The columns the listings select (all but the challenge), for the rows
\* ids of tbl.
ListedColumns ==
    {"username", "passwordHash", "email", "fullName", "totpSecret",
     "is2FAEnabled", "isAdmin", "isActive", "lastLogin"}

ListUsers(tbl, ids) ==
    [i \in ids |-> [f \in ListedColumns |-> tbl[i][f]]]

\* var user models.User: the fields this package assigns, at their zero
\* values.
ZeroUser ==
    [username |-> "", passwordHash |-> "", email |-> "", fullName |-> "",
     totpSecret |-> "", is2FAEnabled |-> FALSE, isAdmin |-> FALSE,
     isActive |-> FALSE, lastLogin |-> Null]

UserColumns_WithFlags ==
    {"username", "passwordHash", "email", "fullName", "totpSecret",
     "is2FAEnabled", "isAdmin", "isActive"}

\* The columns GetUserByID selects.
UserColumns ==
    {"username", "passwordHash", "email", "fullName", "totpSecret",
     "is2FAEnabled"}

\* SELECT id, username, ... FROM users WHERE id = ? scanned with QueryRow:
\* the committed row, or sql.ErrNoRows.
ScanUser(tbl, id) ==
    IF id \in DOMAIN tbl
    THEN [err |-> "none",
          user |-> [f \in DOMAIN ZeroUser |->
                        IF f \in UserColumns THEN tbl[id][f]
                        ELSE ZeroUser[f]] @@ [id |-> id]]
    ELSE [err |-> "ErrNoRows"]

\* lines 278-306: one statement outside any transaction.
GetUserByID(p, uids) ==
    /\ Idle(p)
    /\ \E u \in uids, fault \in BOOLEAN :
        LET r == [op |-> "GetUserByID", uid |-> u, fault |-> fault,
                  found |-> u \in DOMAIN users]
            q == ScanUser(users, u)
        IN IF fault
           THEN Finish(p, r @@ [err |-> "store", user |-> Null])
           ELSE IF q.err # "none"
           THEN Finish(p, r @@ [err |-> "user not found", user |-> Null])
           ELSE Finish(p, r @@ [err |-> "none", user |-> Some(q.user)])
    /\ UNCHANGED <<users, courses, tasks, progress, now, tx, leaked,
                   lastSave>>

\* lines 247-275: WHERE username = ?, the first row QueryRow finds.
GetUserByUsername(p, names) ==
    /\ Idle(p)
    /\ \E name \in names, fault \in BOOLEAN :
        LET ids == {i \in DOMAIN users : users[i].username = name}
            r == [op |-> "GetUserByUsername", name |-> name,
                  fault |-> fault, found |-> ids # {}]
        IN IF fault
           THEN Finish(p, r @@ [err |-> "store", user |-> Null])
           ELSE IF ids = {}
           THEN Finish(p, r @@ [err |-> "user not found", user |-> Null])
           ELSE \E i \in ids :
                Finish(p, r @@ [err |-> "none",
                                user |-> Some(ScanUser(users, i).user)])
    /\ UNCHANGED <<users, courses, tasks, progress, now, tx, leaked,
                   lastSave>>

WhereIsAdmin_IsActive(tbl, isAdmin) ==
    {i \in DOMAIN tbl : tbl[i].isActive = isAdmin}

\* WHERE is_admin = ?
WhereIsAdmin(tbl, isAdmin) == {i \in DOMAIN tbl : tbl[i].isAdmin = isAdmin}

\* lines 363-414: one statement.
GetUsersByRole(p) ==
    /\ Idle(p)
    /\ \E isAdmin \in BOOLEAN, fault \in BOOLEAN :
        LET r == [op |-> "GetUsersByRole", role |-> isAdmin, fault |-> fault]
        IN IF fault
           THEN Finish(p, r @@ [err |-> "store", rows |-> <<>>])
           ELSE Finish(p, r @@ [err |-> "none",
                                rows |-> ListUsers(users,
                                            WhereIsAdmin(users, isAdmin))])
    /\ UNCHANGED <<users, courses, tasks, progress, now, tx, leaked,
                   lastSave>>

\* The bytes of the strings the model supplies.
Chars(str) ==
    CASE str = "" -> <<>>
      [] str = "alice" -> <<"a", "l", "i", "c", "e">>
      [] str = "bob" -> <<"b", "o", "b">>
      [] str = "a@x.com" -> <<"a", "@", "x", ".", "c", "o", "m">>
      [] str = "b@x.com" -> <<"b", "@", "x", ".", "c", "o", "m">>
      [] str = "n0" -> <<"n", "0">>
      [] str = "ob" -> <<"o", "b">>
      [] str = "zz" -> <<"z", "z">>

\* text LIKE '%' + query + '%', for a query without wildcards.
Like(text, query) ==
    LET t == Chars(text)
        q == Chars(query)
    IN \E i \in 0..Len(t) :
        i + Len(q) <= Len(t) /\ SubSeq(t, i + 1, i + Len(q)) = q

\* WHERE username LIKE ? OR email LIKE ? OR full_name LIKE ?
WhereLike(tbl, query) ==
    {i \in DOMAIN tbl :
        \/ Like(tbl[i].username, query)
        \/ Like(tbl[i].email, query)
        \/ Like(tbl[i].fullName, query)}

\* lines 576-630: one statement.
SearchUsers(p, queries) ==
    /\ Idle(p)
    /\ \E query \in queries, fault \in BOOLEAN :
        LET r == [op |-> "SearchUsers", query |-> query, fault |-> fault]
        IN IF fault
           THEN Finish(p, r @@ [err |-> "store", rows |-> <<>>])
           ELSE Finish(p, r @@ [err |-> "none",
                                rows |-> ListUsers(users,
                                            WhereLike(users, query))])
    /\ UNCHANGED <<users, courses, tasks, progress, now, tx, leaked,
                   lastSave>>

\* lines 461-511: one statement, every row with every column but the
\* challenge; the order of the rows is not fixed, the result is kept as
\* the rows by id.
GetAllUsers(p) ==
    /\ Idle(p)
    /\ \E fault \in BOOLEAN :
        IF fault
        THEN Finish(p, [op |-> "GetAllUsers", err |-> "store",
                        fault |-> TRUE, rows |-> <<>>])
        ELSE Finish(p, [op |-> "GetAllUsers", err |-> "none",
                        fault |-> FALSE, rows |-> ListUsers(users, DOMAIN users)])
    /\ UNCHANGED <<users, courses, tasks, progress, now, tx, leaked,
                   lastSave>>

\* ------------------------------------------------------ UpdateUserProfile
\* models.UpdateProfileRequest: an empty field is not updated.
Request(email, fullName, password) ==
    [email |-> email, fullName |-> fullName, password |-> password]

\* len([]byte(password)) of the passwords the model supplies.
PwLen(pw) ==
    CASE pw = "" -> 0
      [] pw = "pw1" -> 3
      [] pw = "long73" -> 73

\* bcrypt.GenerateFromPassword: fails on more than 72 bytes, otherwise the
\* hash embeds a fresh salt.
GenerateFromPassword(pw, salt) ==
    IF PwLen(pw) > BcryptMaxLen
    THEN [err |-> "hash"]
    ELSE [err |-> "none", hash |-> <<"bcrypt", pw, salt>>]

NextStage_EmailAlways(data, from) ==
    IF from < 1 THEN "UpdateUserProfile_email"
    ELSE IF from < 2 /\ data.fullName # "" THEN "UpdateUserProfile_fullName"
    ELSE IF from < 3 /\ data.password # "" THEN "UpdateUserProfile_password"
    ELSE "UpdateUserProfile_commit"

\* The statement UpdateUserProfile runs after the one at `from`: the
\* blocks of the empty fields are skipped.
NextStage(data, from) ==
    IF from < 1 /\ data.email # "" THEN "UpdateUserProfile_email"
    ELSE IF from < 2 /\ data.fullName # "" THEN "UpdateUserProfile_fullName"
    ELSE IF from < 3 /\ data.password # "" THEN "UpdateUserProfile_password"
    ELSE "UpdateUserProfile_commit"

UpdateStages ==
    {"UpdateUserProfile_email", "UpdateUserProfile_fullName",
     "UpdateUserProfile_password", "UpdateUserProfile_commit"}

\* s.DB.Begin()
BeginTx(u) == [st |-> "open", uid |-> u, lock |-> FALSE, w |-> <<>>]

DBExec(tbl, t, field, v) ==
    [tbl |-> UpdateWhereID(tbl, t.uid,
                [f \in DOMAIN tbl[t.uid] |->
                    IF f = field THEN v ELSE tbl[t.uid][f]]),
     t |-> t]

\* stmt.Exec of a statement prepared on tx: the row is written and locked
\* inside the transaction, the committed table is as it was; an UPDATE
\* WHERE id = ? that matches no row writes and locks nothing.
TxExec(tbl, t, field, v) ==
    [tbl |-> tbl,
     t |-> IF t.uid \in DOMAIN tbl
           THEN [t EXCEPT !.w = (field :> v) @@ @, !.lock = TRUE]
           ELSE t]

\* tx.Commit(): the statements of the transaction take effect together.
CommitTx(tbl, t) ==
    IF t.uid \in DOMAIN tbl
    THEN [tbl EXCEPT ![t.uid] =
            [f \in DOMAIN @ |-> IF f \in DOMAIN t.w THEN t.w[f] ELSE @[f]]]
    ELSE tbl

\* The deferred function of UpdateUserProfile (lines 519-526) tests the err
\* declared by s.DB.Begin(); the err of a failing statement is a new
\* variable of the inner block (:= at lines 529, 542, 555, 560), so the
\* deferred function sees nil and does not roll back.
DeferredOnError(t) == t

\* users(email UNIQUE): the UPDATE of a row to another row's email.
EmailTaken(tbl, u, email) ==
    /\ u \in DOMAIN tbl
    /\ \E i \in DOMAIN tbl : i # u /\ tbl[i].email = email

\* A transaction waits for a row another open transaction has written.
CanWriteInTx(p, u) ==
    u \notin ({tx[q].uid : q \in {r \in Procs \ {p} :
                                   tx[r].st = "open" /\ tx[r].lock}}
              \cup {t.uid : t \in {l \in leaked : l.lock}})

\* What the call leaves behind when it returns: a transaction still open
\* keeps its connection and its row lock.
Leak(t) ==
    IF t.st = "open"
    THEN leaked \cup {[uid |-> t.uid, lock |-> t.lock,
                        email |-> PendingEmail(t)]}
    ELSE leaked

UpdateResult(p, t, err) ==
    [op |-> "UpdateUserProfile", uid |-> t.uid, err |-> err, txst |-> t.st,
     dirty |-> t.st # "none" /\ t.w # <<>>]

UpdateFails_Ignored(p, t, err) ==
    /\ pc' = [pc EXCEPT ![p] = "UpdateUserProfile_commit"]
    /\ UNCHANGED <<users, tx, call, res, leaked>>

\* A statement of the transaction fails with err: return err (the deferred
\* function runs).
UpdateFails(p, t, err) ==
    /\ Finish(p, UpdateResult(p, DeferredOnError(t), err))
    /\ leaked' = Leak(DeferredOnError(t))
    /\ tx' = [tx EXCEPT ![p] = NoTx]
    /\ UNCHANGED users

\* A statement of the transaction succeeds: on to the next one.
UpdateStep(p, out, from) ==
    /\ users' = out.tbl
    /\ tx' = [tx EXCEPT ![p] = out.t]
    /\ pc' = [pc EXCEPT ![p] = NextStage(call[p].data, from)]
    /\ UNCHANGED <<call, res, leaked>>

\* lines 515-518
UpdateUserProfile_Begin(p, uids, emails, names, passwords) ==
    /\ Idle(p)
    /\ \E u \in uids, e \in emails, n \in names, pw \in passwords,
          fault \in BOOLEAN :
        IF fault
        THEN /\ Finish(p, UpdateResult(p, [st |-> "none", uid |-> u], "store"))
             /\ UNCHANGED tx
        ELSE /\ tx' = [tx EXCEPT ![p] = BeginTx(u)]
             /\ Goto(p, NextStage(Request(e, n, pw), 0),
                     [op |-> "UpdateUserProfile", uid |-> u,
                      data |-> Request(e, n, pw)])
    /\ UNCHANGED <<users, courses, tasks, progress, now, leaked, lastSave>>

\* lines 528-539
UpdateUserProfile_Email(p) ==
    /\ pc[p] = "UpdateUserProfile_email"
    /\ LET c == call[p]
       IN \E fault \in BOOLEAN :
            IF fault
            THEN UpdateFails(p, tx[p], "store")
            ELSE /\ CanWriteInTx(p, c.uid)
                 /\ c.uid \in DOMAIN users =>
                        c.data.email \notin HeldEmails(p)
                 /\ IF EmailTaken(users, c.uid, c.data.email)
                    THEN UpdateFails(p, tx[p], "store")
                    ELSE UpdateStep(p, TxExec(users, tx[p], "email",
                                              c.data.email), 1)
    /\ UNCHANGED <<courses, tasks, progress, now, lastSave>>

\* lines 541-552
UpdateUserProfile_FullName(p) ==
    /\ pc[p] = "UpdateUserProfile_fullName"
    /\ LET c == call[p]
       IN \E fault \in BOOLEAN :
            IF fault
            THEN UpdateFails(p, tx[p], "store")
            ELSE /\ CanWriteInTx(p, c.uid)
                 /\ UpdateStep(p, TxExec(users, tx[p], "fullName",
                                         c.data.fullName), 2)
    /\ UNCHANGED <<courses, tasks, progress, now, lastSave>>

\* lines 554-570
UpdateUserProfile_Password(p) ==
    /\ pc[p] = "UpdateUserProfile_password"
    /\ LET c == call[p]
       IN \E fault \in BOOLEAN, salt \in Salts :
            LET h == GenerateFromPassword(c.data.password, salt)
            IN IF h.err # "none"
               THEN UpdateFails(p, tx[p], h.err)
               ELSE IF fault
               THEN UpdateFails(p, tx[p], "store")
               ELSE /\ CanWriteInTx(p, c.uid)
                    /\ UpdateStep(p, TxExec(users, tx[p], "passwordHash",
                                            h.hash), 3)
    /\ UNCHANGED <<courses, tasks, progress, now, lastSave>>

\* line 572: return tx.Commit().  A commit the store refuses ends the
\* transaction there: its statements are discarded.
UpdateUserProfile_Commit(p) ==
    /\ pc[p] = "UpdateUserProfile_commit"
    /\ \E fault \in BOOLEAN :
        IF fault
        THEN /\ Finish(p, [UpdateResult(p, tx[p], "store")
                             EXCEPT !.txst = "rolledback"])
             /\ UNCHANGED users
        ELSE /\ users' = CommitTx(users, tx[p])
             /\ Finish(p, [UpdateResult(p, tx[p], "none")
                             EXCEPT !.txst = "committed"])
    /\ tx' = [tx EXCEPT ![p] = NoTx]
    /\ UNCHANGED <<courses, tasks, progress, now, leaked, lastSave>>

\* ------------------------------------------------------- courses and tasks
TaskOrders == {1, 2}

\* SELECT ... WHERE course_id = ?
TasksOf(tbl, id) == {t \in DOMAIN tbl : tbl[t].courseId = id}

CountTasks_CountStar(tbl, id) ==
    IF TasksOf(tbl, id) = {} THEN 1 ELSE Cardinality(TasksOf(tbl, id))

\* COUNT(t.id) of the LEFT JOIN, grouped by course
CountTasks(tbl, id) == Cardinality(TasksOf(tbl, id))

OrderByTaskOrder_Unordered(tbl, ids) ==
    {s \in [1..Cardinality(ids) -> ids] :
        \A i, j \in DOMAIN s : i # j => s[i] # s[j]}

\* ORDER BY task_order: every listing of the rows in which task_order never
\* decreases (rows of equal task_order come in any order).
OrderByTaskOrder(tbl, ids) ==
    {s \in [1..Cardinality(ids) -> ids] :
        /\ \A i, j \in DOMAIN s : i # j => s[i] # s[j]
        /\ \A i, j \in DOMAIN s : i < j => tbl[s[i]].order <= tbl[s[j]].order}

\* s.DB.Begin() with the default options: the store's default isolation
\* (REPEATABLE READ), under which the first read fixes the view every
\* later read of the transaction sees.
BeginReadTx == [st |-> "open", lock |-> FALSE, uid |-> 0, snap |-> Null]

TxRead_NoSnapshot(t, tbl) == [rows |-> tbl, t |-> t]

\* A query through a statement prepared on tx.
TxRead(t, tbl) ==
    IF IsNull(t.snap)
    THEN [rows |-> tbl, t |-> [t EXCEPT !.snap = Some(tbl)]]
    ELSE [rows |-> Val(t.snap), t |-> t]

DeferredEnd_AlwaysCommit(txErr) == "committed"

\* The deferred function of GetCourseByID (lines 65-71).
DeferredEnd(txErr) == IF txErr THEN "rolledback" ELSE "committed"

QueryCourseError_Wrapped(err) == "store"

\* lines 94-100: sql.ErrNoRows becomes ErrCourseNotFound, any other error
\* is wrapped.
QueryCourseError(err) ==
    IF err = "ErrNoRows" THEN "ErrCourseNotFound" ELSE "store"

\* SELECT ... FROM courses c ... WHERE c.id = ? GROUP BY c.id, scanned
\* with QueryRow: no row for an id that matches no course.
ScanCourse(tbl, id) ==
    IF id \in DOMAIN tbl
    THEN [err |-> "none", course |-> tbl[id]]
    ELSE [err |-> "ErrNoRows"]

\* What GetCourseByID returns, and whether a course with the id is stored;
\* on an error the course is models.Course{}.
CourseResult(id, err, fault, txst) ==
    [op |-> "GetCourseByID", id |-> id, err |-> err, fault |-> fault,
     found |-> id \in DOMAIN courses, course |-> Null,
     txst |-> txst, tasksCount |-> 0, tasks |-> <<>>, raced |-> FALSE]

\* A task row inserted by the catalog, outside this package.
InsertTask ==
    /\ Cardinality(DOMAIN tasks) < MaxTasks
    /\ \E c \in DOMAIN courses, o \in TaskOrders :
        tasks' = tasks @@ ((Cardinality(DOMAIN tasks) + 1) :>
                            [courseId |-> c, order |-> o])
    /\ UNCHANGED <<users, courses, progress, now, pc, call, tx, leaked, res,
                   lastSave>>

\* lines 58-71
GetCourseByID_Begin(p, ids) ==
    /\ Idle(p)
    /\ \E id \in ids, fault \in BOOLEAN :
        IF fault
        THEN /\ Finish(p, CourseResult(id, "store", TRUE, "none"))
             /\ UNCHANGED tx
        ELSE /\ tx' = [tx EXCEPT ![p] = BeginReadTx]
             /\ Goto(p, "GetCourseByID_course",
                     [op |-> "GetCourseByID", id |-> id])
    /\ UNCHANGED <<users, courses, tasks, progress, now, leaked, lastSave>>

\* lines 73-101
GetCourseByID_Course(p) ==
    /\ pc[p] = "GetCourseByID_course"
    /\ LET c == call[p]
           q == TxRead(tx[p], tasks)
       IN \E fault \in BOOLEAN :
            IF fault
            THEN /\ Finish(p, CourseResult(c.id, "store", TRUE,
                                           DeferredEnd(TRUE)))
                 /\ tx' = [tx EXCEPT ![p] = NoTx]
            ELSE IF ScanCourse(courses, c.id).err # "none"
            THEN /\ Finish(p, CourseResult(c.id,
                            QueryCourseError(ScanCourse(courses, c.id).err),
                            FALSE, DeferredEnd(TRUE)))
                 /\ tx' = [tx EXCEPT ![p] = NoTx]
            ELSE /\ tx' = [tx EXCEPT ![p] = q.t]
                 /\ Goto(p, "GetCourseByID_tasks",
                         [op |-> "GetCourseByID", id |-> c.id,
                          tasksCount |-> CountTasks(q.rows, c.id)])
    /\ UNCHANGED <<users, courses, tasks, progress, now, leaked, lastSave>>

\* lines 103-146
GetCourseByID_Tasks(p) ==
    /\ pc[p] = "GetCourseByID_tasks"
    /\ LET c == call[p]
           q == TxRead(tx[p], tasks)
       IN \E fault \in BOOLEAN :
            IF fault
            THEN Finish(p, CourseResult(c.id, "store", TRUE,
                                        DeferredEnd(TRUE)))
            ELSE \E list \in OrderByTaskOrder(q.rows, TasksOf(q.rows, c.id)) :
                    Finish(p, [CourseResult(c.id, "none", FALSE,
                                            DeferredEnd(FALSE))
                               EXCEPT !.course = Some(courses[c.id]),
                                      !.tasksCount = c.tasksCount,
                                      !.tasks = list,
                                      !.raced = CountTasks(tasks, c.id)
                                                    # c.tasksCount])
    /\ tx' = [tx EXCEPT ![p] = NoTx]
    /\ UNCHANGED <<users, courses, tasks, progress, now, leaked, lastSave>>

\* lines 18-56: one statement, the count of every course; tasksSeen is the
\* number of task rows stored when it ran.
GetCourses(p) ==
    /\ Idle(p)
    /\ \E fault \in BOOLEAN :
        IF fault
        THEN Finish(p, [op |-> "GetCourses", err |-> "store",
                        fault |-> TRUE, tasksSeen |-> 0, counts |-> <<>>])
        ELSE Finish(p, [op |-> "GetCourses", err |-> "none",
                        fault |-> FALSE,
                        tasksSeen |-> Cardinality(DOMAIN tasks),
                        counts |-> [c \in DOMAIN courses |->
                                        CountTasks(tasks, c)]])
    /\ UNCHANGED <<users, courses, tasks, progress, now, tx, leaked,
                   lastSave>>

\* ---------------------------------------------------------- user progress
UpsertProgress_OneRowPerUser(pr, u, t) ==
    SetToBag({k \in BagToSet(pr) : k[1] # u} \cup {<<u, t>>})

UpsertProgress_PlainInsert(pr, u, t) == pr (+) SetToBag({<<u, t>>})

\* INSERT INTO user_progress ... ON DUPLICATE KEY UPDATE task_id =
\* VALUES(task_id): a new row, or the same row again.
UpsertProgress(pr, u, t) ==
    IF BagIn(<<u, t>>, pr) THEN pr ELSE pr (+) SetToBag({<<u, t>>})

TaskExists_Always(tbl, t) == TRUE

\* SELECT EXISTS(SELECT 1 FROM tasks WHERE id = ?)
TaskExists(tbl, t) == t \in DOMAIN tbl

UserKeyExists_Unchecked(u) == TRUE

\* user_progress(user_id FK)
UserKeyExists(u) == u \in DOMAIN users

CompletedMap_AllUsers(pr, u) ==
    [t \in {k[2] : k \in BagToSet(pr)} |-> TRUE]

\* completed[taskID] = true for every row of the user
CompletedMap(pr, u) ==
    [t \in {k[2] : k \in {r \in BagToSet(pr) : r[1] = u}} |-> TRUE]

CompleteResult(u, t, err, fault) ==
    [op |-> "CompleteTask", uid |-> u, tid |-> t, err |-> err,
     fault |-> fault, had |-> BagIn(<<u, t>>, progress),
     missing |-> t \notin DOMAIN tasks,
     copies |-> 0, unchanged |-> TRUE, concurrent |-> FALSE]

\* Another worker is between the existence check and the upsert of the
\* same (user, task) pair.
OtherPending(p, u, t) ==
    \E q \in Procs \ {p} :
        pc[q] = "CompleteTask_upsert" /\ call[q].uid = u /\ call[q].tid = t

\* lines 180-189
CompleteTask_Check(p, uids, tids) ==
    /\ Idle(p)
    /\ \E u \in uids, t \in tids, fault \in BOOLEAN :
        IF fault
        THEN Finish(p, CompleteResult(u, t, "store", TRUE))
        ELSE IF ~TaskExists(tasks, t)
        THEN Finish(p, CompleteResult(u, t, "ErrTaskNotFound", FALSE))
        ELSE /\ pc' = [pc EXCEPT ![p] = "CompleteTask_upsert"]
             /\ call' = [q \in Procs |->
                    IF q = p
                    THEN [op |-> "CompleteTask", uid |-> u, tid |-> t,
                          concurrent |-> OtherPending(p, u, t)]
                    ELSE IF pc[q] = "CompleteTask_upsert"
                            /\ call[q].uid = u /\ call[q].tid = t
                    THEN [call[q] EXCEPT !.concurrent = TRUE]
                    ELSE call[q]]
             /\ UNCHANGED res
    /\ UNCHANGED <<users, courses, tasks, progress, now, tx, leaked,
                   lastSave>>

\* lines 191-204
CompleteTask_Upsert(p) ==
    /\ pc[p] = "CompleteTask_upsert"
    /\ LET c == call[p]
           r == [CompleteResult(c.uid, c.tid, "none", FALSE)
                    EXCEPT !.concurrent = c.concurrent]
       IN \E fault \in BOOLEAN :
            IF fault
            THEN /\ Finish(p, [r EXCEPT !.err = "store", !.fault = TRUE,
                                !.copies = CopiesIn(<<c.uid, c.tid>>,
                                                    progress)])
                 /\ UNCHANGED progress
            ELSE IF ~UserKeyExists(c.uid)
            THEN /\ Finish(p, [r EXCEPT !.err = "store",
                                !.copies = CopiesIn(<<c.uid, c.tid>>,
                                                    progress)])
                 /\ UNCHANGED progress
            ELSE /\ progress' = UpsertProgress(progress, c.uid, c.tid)
                 /\ Finish(p, [r EXCEPT
                        !.copies = CopiesIn(<<c.uid, c.tid>>, progress'),
                        !.unchanged = (progress' = progress)])
    /\ UNCHANGED <<users, courses, tasks, now, tx, leaked, lastSave>>

\* lines 148-178
GetUserProgress(p, uids) ==
    /\ Idle(p)
    /\ \E u \in uids, fault \in BOOLEAN :
        IF fault
        THEN Finish(p, [op |-> "GetUserProgress", uid |-> u,
                        err |-> "store", fault |-> TRUE,
                        completed |-> <<>>])
        ELSE Finish(p, [op |-> "GetUserProgress", uid |-> u,
                        err |-> "none", fault |-> FALSE,
                        completed |-> CompletedMap(progress, u)])
    /\ UNCHANGED <<users, courses, tasks, progress, now, tx, leaked,
                   lastSave>>

\* --------------------------------------------------------- specifications
InitWith(ws, tbl, crs, tsk) ==
    /\ users = tbl
    /\ courses = crs
    /\ tasks = tsk
    /\ progress = EmptyBag
    /\ now = 0
    /\ pc = [p \in ws |-> "idle"]
    /\ call = [p \in ws |-> NoCall]
    /\ tx = [p \in ws |-> NoTx]
    /\ leaked = {}
    /\ res = NoRes
    /\ lastSave = [u \in DOMAIN tbl \cup UserIds |->
                    [at |-> 0, code |-> <<>>, expiresAt |-> 0]]

\* One worker, a running clock: the challenge life cycle of a user from
\* registration on.
InitOTP == InitWith({"w1"}, <<>>, <<>>, <<>>)

NextOTP ==
    \/ Tick
    \/ \E p \in Procs : SaveOTPCode_Begin(p, ArgUserIds, Codes)
    \/ \E p \in Procs : SaveOTPCode_Exec(p)
    \/ \E p \in Procs : VerifyOTPCode_Query(p, ArgUserIds, Codes)
    \/ \E p \in Procs : VerifyOTPCode_Check(p)
    \/ \E p \in Procs : ClearOTPCode(p, ArgUserIds)
    \/ \E p \in Procs : CreateUser_Check(p, {"alice"}, {"a@x.com"}, BOOLEAN)
    \/ \E p \in Procs : CreateUser_Insert(p)

SpecOTP == InitOTP /\ [][NextOTP]_vars

TwoUsers ==
    (1 :> NewUserRow(Candidate("alice", "a@x.com", TRUE)))
        @@ (2 :> NewUserRow(Candidate("bob", "b@x.com", TRUE)))

OneUser == (1 :> NewUserRow(Candidate("alice", "a@x.com", TRUE)))

\* A worker updating the profile of a registered user and of an id that
\* matches no user, a second user being registered.
InitProfile == InitWith({"w1"}, TwoUsers, <<>>, <<>>)

NextProfile ==
    \/ \E p \in Procs :
        UpdateUserProfile_Begin(p, {1, MaxUsers + 1}, {"", "b@x.com", "c@x.com"},
                                {"", "n1"}, {"", "pw1", "long73"})
    \/ \E p \in Procs : UpdateUserProfile_Email(p)
    \/ \E p \in Procs : UpdateUserProfile_FullName(p)
    \/ \E p \in Procs : UpdateUserProfile_Password(p)
    \/ \E p \in Procs : UpdateUserProfile_Commit(p)

SpecProfile == InitProfile /\ [][NextProfile]_vars

TwoCourses ==
    (1 :> [vulnerabilityType |-> "XSS", description |-> "d1"])
        @@ (2 :> [vulnerabilityType |-> "CSRF", description |-> "d2"])

OneTask == (1 :> [courseId |-> 1, order |-> 2])

\* Two workers reading courses while the catalog inserts tasks.
InitCourse == InitWith(Workers, TwoUsers, TwoCourses, <<>>)

NextCourse ==
    \/ InsertTask
    \/ \E p \in Procs : GetCourseByID_Begin(p, {1, 3})
    \/ \E p \in Procs : GetCourseByID_Course(p)
    \/ \E p \in Procs : GetCourseByID_Tasks(p)
    \/ \E p \in Procs : GetCourses(p)

SpecCourse == InitCourse /\ [][NextCourse]_vars

\* One worker reading a stored course and an id that matches none, while
\* the catalog inserts tasks.
InitCourseTx == InitWith({"w1"}, <<>>, TwoCourses, OneTask)

NextCourseTx ==
    \/ InsertTask
    \/ \E p \in Procs : GetCourseByID_Begin(p, {1, 2, 3})
    \/ \E p \in Procs : GetCourseByID_Course(p)
    \/ \E p \in Procs : GetCourseByID_Tasks(p)

SpecCourseTx == InitCourseTx /\ [][NextCourseTx]_vars

\* Two workers completing tasks for a registered user and for an id that
\* matches no user, while the catalog inserts tasks.
InitProgress == InitWith(Workers, TwoUsers, TwoCourses, OneTask)

NextProgress ==
    \/ InsertTask
    \/ \E p \in Procs : CompleteTask_Check(p, {1, MaxUsers + 1}, {1, 2})
    \/ \E p \in Procs : CompleteTask_Upsert(p)
    \/ \E p \in Procs : GetUserProgress(p, {1, MaxUsers + 1})

SpecProgress == InitProgress /\ [][NextProgress]_vars

\* Two workers registering users under two usernames and two emails, and
\* issuing and clearing the challenge of user 1.
InitUsers == InitWith(Workers, <<>>, <<>>, <<>>)

NextUsers ==
    \/ \E p \in Procs : CreateUser_Check(p, Usernames, Emails, {FALSE})
    \/ \E p \in Procs : CreateUser_Insert(p)
    \/ \E p \in Procs : SaveOTPCode_Begin(p, {1}, {<<1>>})
    \/ \E p \in Procs : SaveOTPCode_Exec(p)
    \/ \E p \in Procs : ClearOTPCode(p, {1})
    \/ \E p \in Procs : PromoteToAdmin(p, {1})

SpecUsers == InitUsers /\ [][NextUsers]_vars

\* Two workers running every operation that writes the row of user 1, from
\* its registration on.
InitRows == InitWith(Workers, <<>>, <<>>, <<>>)

NextRows ==
    \/ \E p \in Procs : CreateUser_Check(p, {"alice"}, {"a@x.com"}, {FALSE})
    \/ \E p \in Procs : CreateUser_Insert(p)
    \/ \E p \in Procs : SaveOTPCode_Begin(p, {1}, {<<1>>})
    \/ \E p \in Procs : SaveOTPCode_Exec(p)
    \/ \E p \in Procs : ClearOTPCode(p, {1})
    \/ \E p \in Procs : Enable2FA(p, {1})
    \/ \E p \in Procs : UpdateUserLastLogin(p, {1})
    \/ \E p \in Procs : UpdateUserStatus(p, {1})
    \/ \E p \in Procs : PromoteToAdmin(p, {1})
    \/ \E p \in Procs : DemoteFromAdmin(p, {1})
    \/ \E p \in Procs :
        UpdateUserProfile_Begin(p, {1}, {""}, {"n1"}, {""})
    \/ \E p \in Procs : UpdateUserProfile_FullName(p)
    \/ \E p \in Procs : UpdateUserProfile_Commit(p)

SpecRows == InitRows /\ [][NextRows]_vars

\* Two workers registering users and changing the emails of users 1 and 2,
\* one user being registered.
InitUnique == InitWith(Workers, OneUser, <<>>, <<>>)

NextUnique ==
    \/ \E p \in Procs : CreateUser_Check(p, Usernames, Emails, {FALSE})
    \/ \E p \in Procs : CreateUser_Insert(p)
    \/ \E p \in Procs :
        UpdateUserProfile_Begin(p, {1, 2}, {"a@x.com", "c@x.com"}, {""},
                                {""})
    \/ \E p \in Procs : UpdateUserProfile_Email(p)
    \/ \E p \in Procs : UpdateUserProfile_Commit(p)

SpecUnique == InitUnique /\ [][NextUnique]_vars

\* Two workers issuing and verifying the challenge of user 1 under a
\* running clock.
InitOTPRace == InitWith(Workers, OneUser, <<>>, <<>>)

NextOTPRace ==
    \/ Tick
    \/ \E p \in Procs : SaveOTPCode_Begin(p, {1}, {<<1>>, <<2>>})
    \/ \E p \in Procs : SaveOTPCode_Exec(p)
    \/ \E p \in Procs : VerifyOTPCode_Query(p, {1}, {<<1>>})
    \/ \E p \in Procs : VerifyOTPCode_Check(p)

SpecOTPRace == InitOTPRace /\ [][NextOTPRace]_vars

\* Two workers promoting, demoting and asking IsAdmin for two registered
\* users and for an id that matches no user.
InitAdmin == InitWith(Workers, TwoUsers, <<>>, <<>>)

NextAdmin ==
    \/ \E p \in Procs : PromoteToAdmin(p, {1, 2, MaxUsers + 1})
    \/ \E p \in Procs : DemoteFromAdmin(p, {1, 2, MaxUsers + 1})
    \/ \E p \in Procs : IsAdmin(p, {1, 2, MaxUsers + 1})

SpecAdmin == InitAdmin /\ [][NextAdmin]_vars

\* Two workers changing email, full name and password of user 1 together
\* and reading the users.
InitRead == InitWith(Workers, TwoUsers, <<>>, <<>>)

NextRead ==
    \/ \E p \in Procs :
        UpdateUserProfile_Begin(p, {1}, {"c@x.com"}, {"n1"}, {"pw1"})
    \/ \E p \in Procs : UpdateUserProfile_Email(p)
    \/ \E p \in Procs : UpdateUserProfile_FullName(p)
    \/ \E p \in Procs : UpdateUserProfile_Password(p)
    \/ \E p \in Procs : UpdateUserProfile_Commit(p)
    \/ \E p \in Procs : GetUserByID(p, {1, MaxUsers + 1})
    \/ \E p \in Procs : GetAllUsers(p)

SpecRead == InitRead /\ [][NextRead]_vars

\* Two workers registering users, promoting and demoting them, listing
\* the users and reading one of them.
InitList == InitWith(Workers, <<>>, <<>>, <<>>)

NextList ==
    \/ \E p \in Procs : CreateUser_Check(p, Usernames, Emails, {FALSE})
    \/ \E p \in Procs : CreateUser_Insert(p)
    \/ \E p \in Procs : PromoteToAdmin(p, {1, 2})
    \/ \E p \in Procs : DemoteFromAdmin(p, {1})
    \/ \E p \in Procs : GetUsersByRole(p)
    \/ \E p \in Procs : GetAllUsers(p)
    \/ \E p \in Procs : SearchUsers(p, {"", "ob", "zz"})
    \/ \E p \in Procs : IsAdmin(p, {1})
    \/ \E p \in Procs : GetUserByID(p, {1})
    \/ \E p \in Procs : GetUserByUsername(p, {"alice"})

SpecList == InitList /\ [][NextList]_vars

\* One worker, the operations of SpecRows and verifications of the
\* challenge.
InitEnable == InitWith({"w1"}, <<>>, <<>>, <<>>)

NextEnable ==
    \/ NextRows
    \/ \E p \in Procs : VerifyOTPCode_Query(p, {1}, {<<1>>})
    \/ \E p \in Procs : VerifyOTPCode_Check(p)

SpecEnable == InitEnable /\ [][NextEnable]_vars

\* One worker, two users: every operation that writes a user row on
\* user 1, PromoteToAdmin on user 2 as well.
InitFrame == InitWith({"w1"}, TwoUsers, <<>>, <<>>)

NextFrame ==
    \/ \E p \in Procs : SaveOTPCode_Begin(p, {1}, {<<1>>})
    \/ \E p \in Procs : SaveOTPCode_Exec(p)
    \/ \E p \in Procs : ClearOTPCode(p, {1})
    \/ \E p \in Procs : Enable2FA(p, {1})
    \/ \E p \in Procs : PromoteToAdmin(p, {1, 2})
    \/ \E p \in Procs : DemoteFromAdmin(p, {1})
    \/ \E p \in Procs : UpdateUserStatus(p, {1})
    \/ \E p \in Procs : UpdateUserLastLogin(p, {1})
    \/ \E p \in Procs :
        UpdateUserProfile_Begin(p, {1}, {"c@x.com"}, {"n1"}, {"pw1"})
    \/ \E p \in Procs : UpdateUserProfile_Email(p)
    \/ \E p \in Procs : UpdateUserProfile_FullName(p)
    \/ \E p \in Procs : UpdateUserProfile_Password(p)
    \/ \E p \in Procs : UpdateUserProfile_Commit(p)

SpecFrame == InitFrame /\ [][NextFrame]_vars

\* One worker calling every operation keyed by a user with an id that
\* matches none, and some of them with the id of a stored user.
InitMissing == InitWith({"w1"}, TwoUsers, <<>>, <<>>)

NextMissing ==
    \/ \E p \in Procs : SaveOTPCode_Begin(p, {1, MaxUsers + 1}, {<<1>>})
    \/ \E p \in Procs : SaveOTPCode_Exec(p)
    \/ \E p \in Procs : ClearOTPCode(p, {MaxUsers + 1})
    \/ \E p \in Procs : Enable2FA(p, {MaxUsers + 1})
    \/ \E p \in Procs : PromoteToAdmin(p, {1, MaxUsers + 1})
    \/ \E p \in Procs : DemoteFromAdmin(p, {MaxUsers + 1})
    \/ \E p \in Procs : UpdateUserStatus(p, {MaxUsers + 1})
    \/ \E p \in Procs : UpdateUserLastLogin(p, {MaxUsers + 1})
    \/ \E p \in Procs :
        UpdateUserProfile_Begin(p, {MaxUsers + 1}, {"", "b@x.com"},
                                {"", "n1"}, {"", "long73"})
    \/ \E p \in Procs : UpdateUserProfile_Email(p)
    \/ \E p \in Procs : UpdateUserProfile_FullName(p)
    \/ \E p \in Procs : UpdateUserProfile_Password(p)
    \/ \E p \in Procs : UpdateUserProfile_Commit(p)
    \/ \E p \in Procs : IsAdmin(p, {1, MaxUsers + 1})
    \/ \E p \in Procs : GetUserByID(p, {1, MaxUsers + 1})
    \/ \E p \in Procs : GetUserByUsername(p, {"alice", "carol"})

SpecMissing == InitMissing /\ [][NextMissing]_vars

\* One worker running every operation twice at the same clock reading and
\* with the same arguments, on user 1 and then on user 2, the status of
\* user 2 being set in between; the store fails in none of the calls.
TwinOps ==
    {"SaveOTPCode", "VerifyOTPCode", "CompleteTask", "IsAdmin",
     "PromoteToAdmin", "DemoteFromAdmin", "UpdateUserProfile"}

Owed(op) == res.op = op /\ res.uid = 1

Free == ~(res.op \in TwinOps /\ res.uid = 1)

NoStoreFault(r) == r.op = "none" \/ r.err # "store"

InitStatus == InitWith({"w1"}, TwoUsers, <<>>, OneTask)

NextStatus ==
    \/ Free /\ Tick /\ \A p \in Procs : Idle(p)
    \/ \E p \in Procs :
        Free /\ UpdateUserStatus(p, {2}) /\ NoStoreFault(res')
    \/ \E p \in Procs : Free /\ SaveOTPCode_Begin(p, {1}, {<<1>>, <<2>>})
    \/ \E p \in Procs :
        Owed("SaveOTPCode") /\ SaveOTPCode_Begin(p, {2}, {res.code})
    \/ \E p \in Procs : SaveOTPCode_Exec(p) /\ NoStoreFault(res')
    \/ \E p \in Procs :
        Free /\ VerifyOTPCode_Query(p, {1}, {<<1>>}) /\ NoStoreFault(res')
    \/ \E p \in Procs :
        /\ Owed("VerifyOTPCode")
        /\ VerifyOTPCode_Query(p, {2}, {<<1>>}) /\ NoStoreFault(res')
    \/ \E p \in Procs : VerifyOTPCode_Check(p)
    \/ \E p \in Procs :
        Free /\ CompleteTask_Check(p, {1}, {1, 2}) /\ NoStoreFault(res')
    \/ \E p \in Procs :
        /\ Owed("CompleteTask")
        /\ CompleteTask_Check(p, {2}, {res.tid}) /\ NoStoreFault(res')
    \/ \E p \in Procs : CompleteTask_Upsert(p) /\ NoStoreFault(res')
    \/ \E p \in Procs : Free /\ IsAdmin(p, {1}) /\ NoStoreFault(res')
    \/ \E p \in Procs :
        Owed("IsAdmin") /\ IsAdmin(p, {2}) /\ NoStoreFault(res')
    \/ \E p \in Procs :
        Free /\ PromoteToAdmin(p, {1}) /\ NoStoreFault(res')
    \/ \E p \in Procs :
        Owed("PromoteToAdmin") /\ PromoteToAdmin(p, {2})
            /\ NoStoreFault(res')
    \/ \E p \in Procs :
        Free /\ DemoteFromAdmin(p, {1}) /\ NoStoreFault(res')
    \/ \E p \in Procs :
        Owed("DemoteFromAdmin") /\ DemoteFromAdmin(p, {2})
            /\ NoStoreFault(res')
    \/ \E p \in Procs :
        /\ Free
        /\ UpdateUserProfile_Begin(p, {1}, {""}, {"n1"}, {""})
        /\ NoStoreFault(res')
    \/ \E p \in Procs :
        /\ Owed("UpdateUserProfile")
        /\ UpdateUserProfile_Begin(p, {2}, {""}, {"n1"}, {""})
        /\ NoStoreFault(res')
    \/ \E p \in Procs :
        UpdateUserProfile_FullName(p) /\ NoStoreFault(res')
    \/ \E p \in Procs : UpdateUserProfile_Commit(p) /\ NoStoreFault(res')

SpecStatus == InitStatus /\ [][NextStatus]_vars

\* ------------------------------------------------------------------ claims
VerifyReturned == res.op = "VerifyOTPCode" /\ res.err # "store"

\* C1: VerifyOTPCode returns true exactly when the user has a pending
\* challenge with a non-empty stored code, the supplied code is the stored
\* code and the clock is not after otpExpiresAt; false in every other case.
C1_VerifyIff ==
    VerifyReturned =>
        (res.ok <=> (res.pending /\ ~res.empty /\ res.same /\ ~res.late))

C1_Witness ==
    /\ VerifyReturned /\ res.ok
    /\ res.elapsed = OTPLifetime

\* C5: a VerifyOTPCode for an existing user without a challenge completes
\* with false and without an error.
C5_NoChallengeIsFalseNoError ==
    (res.op = "VerifyOTPCode" /\ res.found /\ ~res.pending) =>
        (~res.ok /\ res.err = "none")

\* A verification that read a challenge: a stored, non-empty code with its
\* expiry.
ChallengeSeen == VerifyReturned /\ res.pending /\ ~res.empty

\* C6 as stated: a verification 5 minutes or more after the SaveOTPCode
\* that issued the challenge returns false whatever the code, and the
\* correct code verified immediately after the SaveOTPCode returns true.
C6_AsStated ==
    ChallengeSeen =>
        /\ (res.elapsed >= OTPLifetime => ~res.ok)
        /\ ((res.elapsed = 0 /\ res.same) => res.ok)

\* C6 amended: a verification more than 5 minutes after the SaveOTPCode
\* that issued the challenge returns false whatever the code, and the
\* correct code verified immediately after the SaveOTPCode returns true.
C6_Amended ==
    ChallengeSeen =>
        /\ (res.elapsed > OTPLifetime => ~res.ok)
        /\ ((res.elapsed = 0 /\ res.same) => res.ok)

C6_Witness ==
    /\ ChallengeSeen /\ res.same
    /\ res.elapsed > OTPLifetime /\ ~res.ok

\* A step of worker p inside UpdateUserProfile, other than a commit that
\* succeeds.
UpdateStepWithoutCommit(p) ==
    /\ pc[p] \in UpdateStages
    /\ pc'[p] # pc[p]
    /\ ~(pc'[p] = "idle" /\ res'.op = "UpdateUserProfile" /\ res'.p = p
         /\ res'.err = "none")

\* C2: when a step of UpdateUserProfile fails, the stored email, full name
\* and password hash are what they were: no statement of the call changes
\* the stored rows unless the call commits, also not the UPDATEs executed
\* before the failing step, and the failing return changes nothing.
C2_FailedUpdatePersistsNothing ==
    [][\A p \in Procs : UpdateStepWithoutCommit(p) => users' = users]_vars

C2_Witness ==
    /\ res.op = "UpdateUserProfile" /\ res.err # "none" /\ res.dirty
    /\ res.uid \in DOMAIN users
    /\ users = TwoUsers

\* C3: an UpdateUserProfile that returns an error after opening its
\* transaction has rolled the transaction back.
C3_ErrorRollsBack ==
    (res.op = "UpdateUserProfile" /\ res.err # "none" /\ res.txst # "none")
        => res.txst = "rolledback"

\* C4: a successful GetCourseByID returns a tasksCount equal to the number
\* of tasks in the returned list, also when a task of the course is
\* inserted between its two queries.
C4_CountMatchesList ==
    (res.op = "GetCourseByID" /\ res.err = "none") =>
        res.tasksCount = Len(res.tasks)

C4_Witness ==
    /\ res.op = "GetCourseByID" /\ res.err = "none" /\ res.raced
    /\ res.tasksCount > 0

\* C8: CompleteTask(u, t) on a pair that is already completed succeeds and
\* leaves the store as it was, with exactly one entry t -> true for u.
C8_SecondCompleteIsNoOp ==
    (res.op = "CompleteTask" /\ res.had /\ ~res.fault) =>
        /\ res.err = "none"
        /\ res.unchanged
        /\ res.copies = 1
        /\ (progress = EmptyBag \/
            \A k \in BagToSet(progress) : CopiesIn(k, progress) = 1)

C8_Witness ==
    /\ res.op = "CompleteTask" /\ res.had /\ res.err = "none"
    /\ ~res.concurrent
    /\ res.tid \in DOMAIN CompletedMap(progress, res.uid)

\* C9: of two CompleteTask calls running concurrently for the same pair of
\* an existing user and an existing task, each succeeds, whichever upsert
\* comes first, and the pair has exactly one progress entry afterwards.
C9_ConcurrentCompleteConverges ==
    (res.op = "CompleteTask" /\ res.concurrent /\ ~res.fault
        /\ res.uid \in DOMAIN users) =>
        /\ res.err = "none"
        /\ res.copies = 1
        /\ CopiesIn(<<res.uid, res.tid>>, progress) = 1

C9_Witness ==
    /\ res.op = "CompleteTask" /\ res.concurrent /\ res.err = "none"
    /\ res.had
    /\ \A p \in Procs : pc[p] = "idle"

\* C7: for every user, otpCode and otpExpiresAt are both set or both
\* absent, in every reachable state of every interleaving of CreateUser,
\* SaveOTPCode, ClearOTPCode and the other operations writing the row.
C7_ChallengeFieldsTogether ==
    \A u \in DOMAIN users :
        IsNull(users[u].otpCode) <=> IsNull(users[u].otpExpiresAt)

C7_Witness ==
    /\ 1 \in DOMAIN users
    /\ ~IsNull(users[1].otpCode) /\ ~IsNull(users[1].otpExpiresAt)
    /\ users[1].isAdmin /\ users[1].fullName = "n1"
    /\ res.op = "SaveOTPCode"

\* C10: CreateUser fails with Conflict when a user with the same username
\* or the same email is stored, a failed call leaves the users table as it
\* was, and with no such user the call succeeds and adds exactly one user,
\* the candidate.
C10_CreateUserConflict ==
    res.op = "CreateUser" =>
        /\ (res.existed /\ ~res.fault) => res.err = "conflict"
        /\ res.err # "none" => (res.unchanged /\ res.added = 0)
        /\ (~res.existed /\ ~res.raced /\ ~res.fault) =>
                (res.err = "none" /\ res.added = 1 /\ res.stored)

C10_Witness ==
    /\ res.op = "CreateUser" /\ res.err = "conflict"
    /\ res.name = "alice" /\ res.email = "b@x.com"
    /\ DOMAIN users = {1}
    /\ users[1].username = "alice" /\ users[1].email = "a@x.com"

\* C11: no two user records share a username or an email, in every
\* reachable state of every interleaving of CreateUser calls and
\* UpdateUserProfile email changes.
C11_UniqueUsernameAndEmail ==
    \A i, j \in DOMAIN users :
        i # j => /\ users[i].username # users[j].username
                 /\ users[i].email # users[j].email

\* A CreateUser whose email was free at its check and was taken by a
\* committed email change before its insert.
C11_Witness ==
    /\ res.op = "CreateUser" /\ res.raced /\ ~res.fault
    /\ res.err = "store"
    /\ Cardinality(DOMAIN users) = 1
    /\ users[1].email = res.email /\ users[1].username # res.name

\* C12: a CompleteTask(u, t) for a task id t that does not exist returns
\* ErrTaskNotFound, and the step in which it returns leaves the progress
\* of every user as it was.
C12_MissingTaskIsTaskNotFound ==
    [][(res'.op = "CompleteTask" /\ res'.missing /\ ~res'.fault) =>
        (res'.err = "ErrTaskNotFound" /\ progress' = progress)]_vars

C12_Witness ==
    /\ res.op = "CompleteTask" /\ res.missing
    /\ res.err = "ErrTaskNotFound"
    /\ res.uid \in DOMAIN users /\ ~res.had
    /\ progress # EmptyBag

\* The row `after` is the row `before` with exactly the non-empty fields of
\* the request data written: the email and the full name as given, the
\* password as a bcrypt hash of it.
OnlyRequestedFieldsChanged(data, before, after) ==
    /\ DOMAIN after = DOMAIN before
    /\ \A f \in DOMAIN before :
        IF f = "email" /\ data.email # ""
        THEN after[f] = data.email
        ELSE IF f = "fullName" /\ data.fullName # ""
        THEN after[f] = data.fullName
        ELSE IF f = "passwordHash" /\ data.password # ""
        THEN \E salt \in Salts :
                after[f] = <<"bcrypt", data.password, salt>>
        ELSE after[f] = before[f]

\* The step in which worker p's UpdateUserProfile commits and returns nil.
UpdateCommits(p) ==
    /\ pc[p] = "UpdateUserProfile_commit" /\ pc'[p] = "idle"
    /\ res'.op = "UpdateUserProfile" /\ res'.p = p /\ res'.err = "none"

\* C13: a successful UpdateUserProfile changes exactly the fields that are
\* non-empty in the request and nothing else in the users table: with
\* only fullName set only fullName changes, with all three empty nothing
\* changes.
C13_OnlyRequestedFieldsChange ==
    [][\A p \in Procs : UpdateCommits(p) =>
        /\ DOMAIN users' = DOMAIN users
        /\ \A i \in DOMAIN users :
            IF i = call[p].uid
            THEN OnlyRequestedFieldsChanged(call[p].data, users[i],
                                            users'[i])
            ELSE users'[i] = users[i]]_vars

C13_Witness ==
    /\ res.op = "UpdateUserProfile" /\ res.err = "none" /\ res.dirty
    /\ res.uid = 1
    /\ users = [TwoUsers EXCEPT ![1].fullName = "n1"]

\* The columns a request selects.
Selected(data) ==
    {f \in {"email", "fullName", "passwordHash"} :
        \/ f = "email" /\ data.email # ""
        \/ f = "fullName" /\ data.fullName # ""
        \/ f = "passwordHash" /\ data.password # ""}

\* C14: UpdateUserProfile commits and returns nil only with the statement
\* of every selected field executed in its transaction, and a call that
\* returns from a field step returns an error without committing.
C14_CommitsOnlyAfterEveryStep ==
    [][\A p \in Procs :
        /\ (UpdateCommits(p) /\ call[p].uid \in DOMAIN users) =>
                DOMAIN tx[p].w = Selected(call[p].data)
        /\ (pc[p] \in UpdateStages \ {"UpdateUserProfile_commit"}
                /\ pc'[p] = "idle") =>
                /\ res'.op = "UpdateUserProfile" /\ res'.p = p
                /\ res'.err # "none" /\ res'.txst # "committed"
                /\ users' = users]_vars

C14_Witness ==
    /\ res.op = "UpdateUserProfile" /\ res.err = "hash" /\ res.dirty
    /\ res.txst = "open" /\ res.uid = 1
    /\ users[1].email = "a@x.com" /\ users[1].fullName = "n0"

\* C15: whatever the interleaving of the SaveOTPCode calls for a user, the
\* stored challenge is the code and the expiry of the call whose UPDATE
\* ran last, and a code verifies against it only if it is that call's
\* code.
C15_LastSaveWins ==
    (res.op = "SaveOTPCode" /\ res.err = "none" /\ res.stored) =>
        /\ users[res.uid].otpCode = Some(res.code)
        /\ users[res.uid].otpExpiresAt = Some(res.expiresAt)
        /\ \A code \in Codes :
            VerifyDecision(code, Val(users[res.uid].otpCode),
                           Val(users[res.uid].otpExpiresAt), now)
                => code = res.code

\* Two overlapping calls have returned: the one that read the clock first
\* ran its UPDATE last and replaced the other's code by its own.
C15_Witness ==
    /\ res.op = "SaveOTPCode" /\ res.err = "none" /\ res.stored
    /\ res.overtook /\ res.replaced = Some(<<1>>) /\ res.code = <<2>>
    /\ \A p \in Procs : Idle(p)
    /\ users[1].otpCode = Some(<<2>>)

\* C16: the challenge a VerifyOTPCode evaluates while SaveOTPCode calls run
\* for the same user is the code and the expiry one SaveOTPCode wrote
\* together (or no challenge), never the code of one call with the expiry
\* of another, and what it returns is the decision on that challenge.
C16_VerifySeesWholeChallenge ==
    (res.op = "VerifyOTPCode" /\ res.found /\ res.err # "store") =>
        /\ res.whole
        /\ res.pending =>
            /\ res.err = "none"
            /\ res.ok <=> (~res.empty /\ res.same /\ ~res.late)

\* A verification that read the old challenge and returned true after a
\* SaveOTPCode had replaced it.
C16_Witness ==
    /\ res.op = "VerifyOTPCode" /\ res.pending /\ res.replaced
    /\ res.ok
    /\ users[res.uid].otpCode # Null

\* A step of worker p inside VerifyOTPCode.
VerifyStep(p) ==
    \/ pc[p] = "VerifyOTPCode_check"
    \/ pc'[p] = "VerifyOTPCode_check"
    \/ /\ Idle(p) /\ pc'[p] = "idle"
       /\ res'.op = "VerifyOTPCode" /\ res'.p = p

\* C17: no step of VerifyOTPCode changes the users table, whatever the
\* call returns, and a verification of the stored code that follows one
\* that returned true, with no other call returning in between, returns
\* true unless the challenge has expired.
C17_VerifyLeavesStore ==
    [][\A p \in Procs :
        /\ VerifyStep(p) => users' = users
        /\ (pc[p] = "VerifyOTPCode_check" /\ pc'[p] = "idle"
                /\ res'.again /\ res'.same) =>
                (res'.ok <=> ~res'.late)]_vars

\* A second verification of the correct code, after time has passed, that
\* returns true like the first.
C17_Witness ==
    /\ res.op = "VerifyOTPCode" /\ res.again /\ res.same /\ res.ok
    /\ res.elapsed > 0
    /\ users[res.uid].otpCode # Null

\* The user has no challenge: both columns are absent.
NoChallenge(row) == IsNull(row.otpCode) /\ IsNull(row.otpExpiresAt)

\* The step in which worker p's ClearOTPCode returns nil.
ClearReturns(p) ==
    /\ Idle(p) /\ pc'[p] = "idle"
    /\ res'.op = "ClearOTPCode" /\ res'.p = p /\ res'.err = "none"

\* C18: a ClearOTPCode that meets no store failure returns nil whether or
\* not a challenge is pending and leaves the user without a challenge and
\* every other column and row as it was; on a user without a challenge it
\* changes nothing; and a VerifyOTPCode for the user that returns next
\* after it does not return true.
C18_ClearLeavesNoChallenge ==
    [][\A p \in Procs :
        /\ ClearReturns(p) =>
            /\ DOMAIN users' = DOMAIN users
            /\ \A i \in DOMAIN users :
                IF i = res'.uid
                THEN /\ NoChallenge(users'[i])
                     /\ \A f \in DOMAIN users[i] \
                                {"otpCode", "otpExpiresAt"} :
                            users'[i][f] = users[i][f]
                     /\ NoChallenge(users[i]) => users'[i] = users[i]
                ELSE users'[i] = users[i]
        /\ (res.op = "ClearOTPCode" /\ res.err = "none"
                /\ res'.op = "VerifyOTPCode" /\ res'.uid = res.uid) =>
                ~res'.ok]_vars

\* A verification of the code a SaveOTPCode had stored, run after a
\* ClearOTPCode removed the challenge: it does not return true.
C18_Witness ==
    /\ res.op = "VerifyOTPCode" /\ res.found /\ ~res.pending /\ ~res.ok
    /\ NoChallenge(users[res.uid])
    /\ lastSave[res.uid].code = <<1>>

\* The step in which worker p's PromoteToAdmin or DemoteFromAdmin (op)
\* returns nil.
SetAdminReturns(p, op) ==
    /\ Idle(p) /\ pc'[p] = "idle"
    /\ res'.op = op /\ res'.p = p /\ res'.err = "none"

\* The step sets is_admin of user u to v and nothing else; with the flag
\* already v it changes nothing.
AdminSetTo(u, v) ==
    /\ DOMAIN users' = DOMAIN users
    /\ \A i \in DOMAIN users :
        IF i = u
        THEN /\ users'[i].isAdmin = v
             /\ \A f \in DOMAIN users[i] \ {"isAdmin"} :
                    users'[i][f] = users[i][f]
             /\ users[i].isAdmin = v => users'[i] = users[i]
        ELSE users'[i] = users[i]

\* An IsAdmin for an existing user that met no store failure.
IsAdminAnswered(r) == r.op = "IsAdmin" /\ r.found /\ ~r.fault

\* C19: PromoteToAdmin sets is_admin and DemoteFromAdmin clears it,
\* whatever it was, each returning nil and changing nothing when the flag
\* already has the value; an IsAdmin for an existing user returns the
\* stored flag without changing it: true when it returns next after a
\* PromoteToAdmin for the user, false after a DemoteFromAdmin, and what the
\* IsAdmin before it returned when no other call returned in between.
C19_IsAdminFollowsLastSet ==
    [][\A p \in Procs :
        /\ SetAdminReturns(p, "PromoteToAdmin") => AdminSetTo(res'.uid, TRUE)
        /\ SetAdminReturns(p, "DemoteFromAdmin") =>
                AdminSetTo(res'.uid, FALSE)
        /\ (Idle(p) /\ res'.p = p /\ IsAdminAnswered(res')) =>
            /\ res'.err = "none" /\ users' = users
            /\ (res.op \in {"PromoteToAdmin", "DemoteFromAdmin"}
                    /\ res.err = "none" /\ res.uid = res'.uid) =>
                    (res'.isAdmin <=> res.op = "PromoteToAdmin")
            /\ (IsAdminAnswered(res) /\ res.uid = res'.uid) =>
                    (res'.isAdmin <=> res.isAdmin)]_vars

\* IsAdmin returns true for user 1, whom a PromoteToAdmin made an admin,
\* while user 2 is none.
C19_Witness ==
    /\ IsAdminAnswered(res) /\ res.uid = 1 /\ res.isAdmin
    /\ users[1].isAdmin /\ ~users[2].isAdmin

\* C20: an IsAdmin for an id that matches no user returns false with the
\* "user not found" error, never false without an error, and a store
\* failure returns another error.
C20_MissingUserIsNotFound ==
    res.op = "IsAdmin" =>
        /\ ~res.found => (~res.isAdmin /\ res.err # "none")
        /\ (~res.found /\ ~res.fault) => res.err = "user not found"
        /\ res.fault => res.err \notin {"none", "user not found"}

C20_Witness ==
    /\ res.op = "IsAdmin" /\ ~res.found /\ ~res.fault
    /\ res.err = "user not found"
    /\ res.uid \notin DOMAIN users /\ users[1].isAdmin

\* C21: a GetCourseByID for an id that matches no course, meeting no store
\* failure, returns ErrCourseNotFound and the empty course; a store
\* failure returns another error.
C21_MissingCourseIsCourseNotFound ==
    res.op = "GetCourseByID" =>
        /\ (~res.found /\ ~res.fault) =>
            /\ res.err = "ErrCourseNotFound"
            /\ IsNull(res.course) /\ res.tasks = <<>> /\ res.tasksCount = 0
        /\ res.fault => res.err \notin {"none", "ErrCourseNotFound"}
        /\ res.err = "ErrCourseNotFound" => ~res.found

C21_Witness ==
    /\ res.op = "GetCourseByID" /\ ~res.found /\ ~res.fault
    /\ res.err = "ErrCourseNotFound" /\ res.id \notin DOMAIN courses
    /\ tasks # <<>>

\* The step in which worker p's GetCourseByID returns a course.
CourseReturned(p) ==
    /\ pc[p] = "GetCourseByID_tasks" /\ pc'[p] = "idle"
    /\ res'.op = "GetCourseByID" /\ res'.p = p /\ res'.err = "none"

\* C22: the task list a successful GetCourseByID returns holds each task
\* of the course in the view of its transaction exactly once and no other
\* task (with no insert during the call, each task of the course stored),
\* and task_order never decreases along it, whatever the order of the
\* inserts.
C22_TasksOfCourseSorted ==
    [][\A p \in Procs : CourseReturned(p) =>
        LET list == res'.tasks
            listed == {list[i] : i \in DOMAIN list}
        IN /\ listed = TasksOf(Val(tx[p].snap), call[p].id)
           /\ Cardinality(listed) = Len(list)
           /\ ~res'.raced => listed = TasksOf(tasks, call[p].id)
           /\ \A i, j \in DOMAIN list :
                i < j => tasks[list[i]].order <= tasks[list[j]].order]_vars

\* Two tasks of the course returned in the order of task_order, the
\* reverse of the order of their inserts.
C22_Witness ==
    /\ res.op = "GetCourseByID" /\ res.err = "none"
    /\ Len(res.tasks) >= 2
    /\ res.tasks[1] > res.tasks[2]
    /\ tasks[res.tasks[1]].order < tasks[res.tasks[2]].order

\* The record shows user 1 before the update in each of the three fields,
\* or after it in each of them.
AllOldOrAllNew(user) ==
    \/ /\ user.email = "a@x.com" /\ user.fullName = "n0"
       /\ user.passwordHash = "h0"
    \/ /\ user.email = "c@x.com" /\ user.fullName = "n1"
       /\ \E salt \in Salts :
            user.passwordHash = <<"bcrypt", "pw1", salt>>

\* C23: what GetUserByID and GetAllUsers return for a user whose email,
\* full name and password an UpdateUserProfile is changing is the record
\* with the three old values or with the three new ones.
C23_ReadersSeeWholeUpdate ==
    /\ (res.op = "GetUserByID" /\ res.err = "none" /\ res.uid = 1) =>
            AllOldOrAllNew(Val(res.user))
    /\ (res.op = "GetAllUsers" /\ res.err = "none") =>
            AllOldOrAllNew(res.rows[1])

\* GetUserByID returned the old record at the moment another worker's
\* transaction had written the email and not yet the full name.
C23_Witness ==
    /\ res.op = "GetUserByID" /\ res.err = "none" /\ res.uid = 1
    /\ Val(res.user).email = "a@x.com"
    /\ \E q \in Procs \ {res.p} :
        /\ pc[q] = "UpdateUserProfile_fullName"
        /\ tx[q].st = "open" /\ DOMAIN tx[q].w = {"email"}

\* C24: no step removes a progress entry, and a GetUserProgress(u) that
\* returns a mapping returns one with every task u had completed before
\* the step: what an earlier GetUserProgress(u) contained, a later one
\* contains.
C24_ProgressOnlyGrows ==
    [][/\ \A k \in BagToSet(progress) : BagIn(k, progress')
       /\ (res'.op = "GetUserProgress" /\ res'.err = "none") =>
            \A k \in BagToSet(progress) :
                k[1] = res'.uid => k[2] \in DOMAIN res'.completed
       /\ (res.op = "GetUserProgress" /\ res.err = "none"
            /\ res'.op = "GetUserProgress" /\ res'.err = "none"
            /\ res'.uid = res.uid) =>
            DOMAIN res.completed \subseteq DOMAIN res'.completed]_vars

\* A GetUserProgress that contains the task completed first and the one
\* completed after it.
C24_Witness ==
    /\ res.op = "GetUserProgress" /\ res.err = "none" /\ res.uid = 1
    /\ DOMAIN res.completed = {1, 2}

\* C25: a GetUserProgress(u) that meets no store failure returns no error
\* and a mapping whose keys are exactly the tasks u has completed, each
\* mapped to true: the empty mapping for a user without completions.
C25_ProgressIsCompletedTasks ==
    (res.op = "GetUserProgress" /\ ~res.fault) =>
        /\ res.err = "none"
        /\ DOMAIN res.completed =
                {t \in DOMAIN tasks : BagIn(<<res.uid, t>>, progress)}
        /\ \A t \in DOMAIN res.completed : res.completed[t] = TRUE
        /\ (\A t \in DOMAIN tasks : ~BagIn(<<res.uid, t>>, progress)) =>
                res.completed = <<>>

\* The mapping of user 1 holds the completed task 1 and not the stored
\* task 2.
C25_Witness ==
    /\ res.op = "GetUserProgress" /\ res.err = "none" /\ res.uid = 1
    /\ DOMAIN res.completed = {1} /\ res.completed[1]
    /\ 2 \in DOMAIN tasks

\* A GetCourses result since which no task was inserted.
CoursesCurrent(r, tbl) ==
    /\ r.op = "GetCourses" /\ r.err = "none"
    /\ r.tasksSeen = Cardinality(DOMAIN tbl)

\* C26: GetCourses returns one entry for every course, with the number of
\* the tasks of the course as tasksCount, zero for a course without
\* tasks; and a GetCourseByID that returns next, no task being inserted
\* meanwhile, returns the same tasksCount for its course.
C26_CoursesCountTasks ==
    [][/\ CoursesCurrent(res', tasks') =>
            /\ DOMAIN res'.counts = DOMAIN courses
            /\ \A c \in DOMAIN courses :
                res'.counts[c] =
                    Cardinality({t \in DOMAIN tasks' :
                                    tasks'[t].courseId = c})
       /\ (CoursesCurrent(res, tasks') /\ res'.op = "GetCourseByID"
            /\ res'.err = "none" /\ ~res'.raced) =>
            res'.tasksCount = res.counts[res'.id]]_vars

\* GetCourses returned two tasks for course 1 and none for course 2.
C26_Witness ==
    /\ CoursesCurrent(res, tasks)
    /\ res.counts[1] = 2 /\ res.counts[2] = 0

\* A listing that returned its rows.
Listed(r) ==
    r.op \in {"GetUsersByRole", "GetAllUsers", "SearchUsers"} /\ ~r.fault

\* The rows are the users of the ids, each with its stored columns.
RowsAre(rows, ids) ==
    /\ DOMAIN rows = ids
    /\ \A i \in ids : \A f \in DOMAIN rows[i] : rows[i][f] = users[i][f]

\* C27: GetUsersByRole(b) returns exactly the users whose stored isAdmin
\* is b; the results of GetUsersByRole(true) and GetUsersByRole(false)
\* over the same table are disjoint and together are the result of
\* GetAllUsers; a listing that matches nothing returns no rows and no
\* error; and no listing changes the store.
C27_ListingsByRole ==
    [][(Listed(res') /\ res' # res) =>
        /\ res'.err = "none"
        /\ <<users, courses, tasks, progress>>' =
                <<users, courses, tasks, progress>>
        /\ res'.op = "GetUsersByRole" =>
            RowsAre(res'.rows,
                    {i \in DOMAIN users : users[i].isAdmin = res'.role})
        /\ res'.op = "GetAllUsers" => RowsAre(res'.rows, DOMAIN users)
        /\ (res'.op = "GetUsersByRole" /\ Listed(res)
                /\ res.op = "GetUsersByRole" /\ res.role # res'.role) =>
            /\ DOMAIN res.rows \cap DOMAIN res'.rows = {}
            /\ DOMAIN res.rows \cup DOMAIN res'.rows = DOMAIN users
        /\ (res'.op = "GetAllUsers" /\ Listed(res)
                /\ res.op = "GetUsersByRole") =>
            /\ DOMAIN res.rows \subseteq DOMAIN res'.rows
            /\ \A i \in DOMAIN res.rows : res'.rows[i] = res.rows[i]
            /\ \A i \in DOMAIN res'.rows \ DOMAIN res.rows :
                res'.rows[i].isAdmin # res.role]_vars

\* GetUsersByRole(true) returned the one administrator of two users.
C27_Witness ==
    /\ res.op = "GetUsersByRole" /\ res.err = "none" /\ res.role
    /\ DOMAIN users = {1, 2}
    /\ DOMAIN res.rows = {2}

\* A listing matched nothing in a table with users.
C27_WitnessEmpty ==
    /\ res.op \in {"GetUsersByRole", "SearchUsers"} /\ res.err = "none"
    /\ res.rows = <<>> /\ DOMAIN users # {}

\* A row and a result without what tells user 1 from user 2.
Twin(row) ==
    [f \in DOMAIN row \ {"username", "email", "isActive"} |-> row[f]]

Anonymous(r) == [f \in DOMAIN r \ {"uid"} |-> r[f]]

Mirrored ==
    /\ Twin(users[1]) = Twin(users[2])
    /\ lastSave[1] = lastSave[2]
    /\ \A t \in 1..MaxTasks :
        CopiesIn(<<1, t>>, progress) = CopiesIn(<<2, t>>, progress)

\* C28: an operation other than UpdateUserStatus on a user whose isActive
\* is false returns the result and leaves the rows that the same call
\* returned and left for a user who is active and otherwise the same.
C28_StatusIsNotAGate ==
    [][(res' # res /\ res'.op \in TwinOps /\ res'.uid = 2
            /\ ~users[2].isActive /\ users[1].isActive) =>
        /\ res.op = res'.op /\ res.uid = 1
        /\ Anonymous(res') = Anonymous(res)
        /\ Mirrored']_vars

\* The inactive user verified a code as the active one did.
C28_Witness ==
    /\ res.op = "VerifyOTPCode" /\ res.uid = 2 /\ res.ok
    /\ ~users[2].isActive /\ users[1].isActive
    /\ users[2].isAdmin /\ users[2].fullName = "n1"
    /\ CopiesIn(<<2, 1>>, progress) = 1

\* Enable2FA returned nil for a stored user.
Enabled2FA(r, tbl) ==
    r.op = "Enable2FA" /\ r.err = "none" /\ r.uid \in DOMAIN tbl

\* C29: an Enable2FA that the store does not fail returns nil, whether the
\* user has a challenge pending or none and whatever call returned before
\* it; it leaves is2FAEnabled true and every other column of the row,
\* otpCode and otpExpiresAt among them, as it was; and no operation makes
\* a true is2FAEnabled false.
C29_Enable2FAOnlySetsTheFlag ==
    [][/\ (res' # res /\ res'.op = "Enable2FA" /\ ~res'.fault) =>
            res'.err = "none"
       /\ (res' # res /\ Enabled2FA(res', users)) =>
            /\ DOMAIN users' = DOMAIN users
            /\ users'[res'.uid].is2FAEnabled
            /\ \A u \in DOMAIN users : \A f \in DOMAIN users[u] :
                (u # res'.uid \/ f # "is2FAEnabled") =>
                    users'[u][f] = users[u][f]
       /\ \A u \in DOMAIN users :
            users[u].is2FAEnabled =>
                u \in DOMAIN users' /\ users'[u].is2FAEnabled]_vars

\* Enable2FA returned nil for a user with a challenge pending.
C29_Witness ==
    /\ Enabled2FA(res, users)
    /\ users[1].is2FAEnabled
    /\ users[1].otpCode = Some(<<1>>) /\ ~IsNull(users[1].otpExpiresAt)

\* C31: once a call has returned it holds no open transaction and no row
\* lock: no transaction is left open by a returned call, and with every
\* worker idle no row is locked, so that a later call on the same user is
\* not blocked.
C31_ReturnedCallsHoldNothing ==
    /\ leaked = {}
    /\ (\A p \in Procs : Idle(p)) => LockedRows = {}

\* C32: a GetCourseByID whose Begin fails opens no transaction; one that
\* returns after Begin has ended its transaction by then, rolled back if
\* it returns an error (ErrCourseNotFound included) and committed if it
\* returns the course, and it leaves no transaction open behind it.
C32_CourseTxEndsOnce ==
    [][\A p \in Procs :
        /\ (pc[p] = "idle" /\ res' # res /\ res'.op = "GetCourseByID") =>
            /\ res'.txst = "none" /\ res'.err = "store"
            /\ tx'[p] = tx[p] /\ tx[p].st = "none"
        /\ (pc[p] \in {"GetCourseByID_course", "GetCourseByID_tasks"}
                /\ pc'[p] = "idle") =>
            /\ tx[p].st = "open"
            /\ tx'[p].st = "none"
            /\ leaked' = leaked
            /\ res'.txst = IF res'.err = "none" THEN "committed"
                           ELSE "rolledback"]_vars

\* GetCourseByID returned ErrCourseNotFound with its transaction rolled
\* back.
C32_Witness ==
    /\ res.op = "GetCourseByID" /\ res.err = "ErrCourseNotFound"
    /\ res.txst = "rolledback"
    /\ \A p \in Procs : tx[p].st = "none"

\* C33: a CreateUser that the store does not fail and that returns an
\* error, its username or email being taken, returns the conflict error,
\* also when the row that takes them was inserted after its check.
C33_TakenIsConflict ==
    (res.op = "CreateUser" /\ ~res.fault /\ res.err # "none") =>
        res.err = "conflict"

\* C34: a SaveOTPCode that returns nil for a stored user leaves the user
\* with the code of the call and with an expiry of OTPLifetime after the
\* clock reading of the call, whether the user had no challenge or one
\* pending, whose code and expiry it replaces.
C34_SaveStartsTheWindow ==
    [][\A p \in Procs :
        (pc[p] = "SaveOTPCode_exec" /\ pc'[p] = "idle"
            /\ res'.err = "none" /\ call[p].uid \in DOMAIN users) =>
            /\ call[p].t0 <= now /\ now <= MaxTime
            /\ users'[call[p].uid].otpCode = Some(call[p].code)
            /\ users'[call[p].uid].otpExpiresAt =
                    Some(call[p].t0 + OTPLifetime)]_vars

\* A challenge was replaced by one with another code and a later expiry.
C34_Witness ==
    /\ res.op = "SaveOTPCode" /\ res.err = "none" /\ res.stored
    /\ res.replaced = Some(<<1>>) /\ res.code = <<2>>
    /\ users[res.uid].otpCode = Some(<<2>>)
    /\ users[res.uid].otpExpiresAt = Some(res.expiresAt)
    /\ res.expiresAt = now + OTPLifetime /\ now > 0

\* The operations that write the row of a user.
Mutators ==
    {"SaveOTPCode", "ClearOTPCode", "Enable2FA", "PromoteToAdmin",
     "DemoteFromAdmin", "UpdateUserStatus", "UpdateUserLastLogin",
     "UpdateUserProfile"}

\* A mutator returned for an id that matches no user, the store having
\* failed none of its statements.
ReturnedForMissing(r, old) ==
    /\ r # old /\ r.op \in Mutators
    /\ r.uid \notin DOMAIN users
    /\ IF r.op = "UpdateUserProfile" THEN r.err # "store" ELSE ~r.fault

\* The call that returns the error of a missing user is one of IsAdmin,
\* GetUserByID and GetUserByUsername, and each of them returns it when it
\* finds no row.
OnlyReadersReportMissing(r) ==
    /\ (r.op # "none" /\ r.err = "user not found") =>
        r.op \in {"IsAdmin", "GetUserByID", "GetUserByUsername"}
    /\ (r.op \in {"IsAdmin", "GetUserByID", "GetUserByUsername"}
            /\ ~r.fault /\ ~r.found) => r.err = "user not found"

\* C35 as stated: a mutator called with an id that matches no user returns
\* nil and changes no row, and only IsAdmin, GetUserByID and
\* GetUserByUsername report the missing user.
C35_AsStated ==
    [][/\ ReturnedForMissing(res', res) =>
            (res'.err = "none" /\ users' = users)
       /\ OnlyReadersReportMissing(res')]_vars

\* C35, amended: a mutator called with an id that matches no user changes
\* no row and returns nil, except that UpdateUserProfile returns the
\* error of the hash when the new password is longer than BcryptMaxLen
\* bytes; only IsAdmin, GetUserByID and GetUserByUsername report the
\* missing user.
C35_Amended ==
    [][/\ ReturnedForMissing(res', res) =>
            /\ users' = users
            /\ res'.err \in {"none", "hash"}
            /\ res'.err = "hash" =>
                /\ res'.op = "UpdateUserProfile"
                /\ \E p \in Procs :
                    /\ pc[p] = "UpdateUserProfile_password"
                    /\ PwLen(call[p].data.password) > BcryptMaxLen
            /\ \A p \in Procs :
                (pc[p] = "UpdateUserProfile_password"
                    /\ PwLen(call[p].data.password) > BcryptMaxLen) =>
                    res'.err = "hash"
       /\ OnlyReadersReportMissing(res')]_vars

\* UpdateUserProfile returned nil for an id that matches no user, the
\* rows being as they were registered.
C35_Witness ==
    /\ res.op = "UpdateUserProfile" /\ res.err = "none"
    /\ res.uid \notin DOMAIN users
    /\ users = TwoUsers

\* The operations through which a column of a stored row changes.
Writers(f) ==
    CASE f = "isAdmin" -> {"PromoteToAdmin", "DemoteFromAdmin"}
      [] f = "isActive" -> {"UpdateUserStatus"}
      [] f \in {"otpCode", "otpExpiresAt"} ->
            {"SaveOTPCode", "ClearOTPCode"}
      [] f = "is2FAEnabled" -> {"Enable2FA"}
      [] f = "lastLogin" -> {"UpdateUserLastLogin"}
      [] f \in {"email", "fullName", "passwordHash"} ->
            {"UpdateUserProfile"}
      [] OTHER -> {}

\* C36: a column of a stored user's row changes only in the step in which
\* one of the operations that write that column returns for that user,
\* and no step removes a row.
C36_OnlyOwnFieldsChange ==
    [][/\ DOMAIN users \subseteq DOMAIN users'
       /\ \A u \in DOMAIN users : \A f \in DOMAIN users[u] :
            users'[u][f] # users[u][f] =>
                /\ res'.op \in Writers(f)
                /\ res'.uid = u
                /\ res'.err = "none"]_vars

\* Every column of user 1 that an operation writes has changed, user 2
\* being as registered.
C36_Witness ==
    /\ res.op = "UpdateUserLastLogin" /\ res.uid = 1 /\ res.err = "none"
    /\ users[2] = TwoUsers[2]
    /\ users[1].isAdmin /\ ~users[1].isActive /\ users[1].is2FAEnabled
    /\ users[1].otpCode = Some(<<1>>)
    /\ users[1].email = "c@x.com" /\ users[1].fullName = "n1"
    /\ users[1].passwordHash # "h0"
    /\ users[1].lastLogin = Some(now)

\* C37: the record GetUserByID and GetUserByUsername return for a stored
\* user has isAdmin and isActive false whatever the row holds, while
\* IsAdmin returns the stored isAdmin and the listings return both flags
\* as stored.
C37_GettersHideRoleAndStatus ==
    /\ (res.op \in {"GetUserByID", "GetUserByUsername"}
            /\ res.err = "none") =>
        /\ ~Val(res.user).isAdmin /\ ~Val(res.user).isActive
        /\ Val(res.user).username = users[Val(res.user).id].username
    /\ (res.op = "IsAdmin" /\ res.err = "none") =>
        res.isAdmin = users[res.uid].isAdmin
    /\ Listed(res) =>
        \A i \in DOMAIN res.rows :
            /\ res.rows[i].isAdmin = users[i].isAdmin
            /\ res.rows[i].isActive = users[i].isActive

\* GetUserByUsername returned an active administrator with both flags
\* false.
C37_Witness ==
    /\ res.op = "GetUserByUsername" /\ res.err = "none"
    /\ users[Val(res.user).id].isAdmin /\ users[Val(res.user).id].isActive
    /\ ~Val(res.user).isAdmin /\ ~Val(res.user).isActive

\* C38: the row CreateUser inserts has isActive true, whatever the
\* candidate says, and neither otpCode nor otpExpiresAt; and a
\* VerifyOTPCode returns true for a user only after a SaveOTPCode has
\* written a challenge for that user.
C38_NewUserHasNoChallenge ==
    [][/\ \A i \in DOMAIN users' \ DOMAIN users :
            /\ res'.op = "CreateUser" /\ res'.err = "none"
            /\ users'[i].isActive
            /\ IsNull(users'[i].otpCode) /\ IsNull(users'[i].otpExpiresAt)
            /\ lastSave[i].expiresAt = 0
       /\ (res'.op = "VerifyOTPCode" /\ res'.ok) =>
            lastSave[res'.uid].expiresAt > 0]_vars

\* A VerifyOTPCode has returned for the new user, for whom no SaveOTPCode
\* was made; the candidate was not active.
C38_Witness ==
    /\ res.op = "VerifyOTPCode" /\ res.found /\ ~res.ok
    /\ lastSave[res.uid].expiresAt = 0
    /\ users[res.uid].isActive /\ IsNull(users[res.uid].otpCode)

\* C39: every progress entry is the entry of a stored user and a stored
\* task, no pair of a user and a task has more than one entry, and a
\* CompleteTask for a stored task and an id that matches no user returns
\* an error and adds no entry.
C39_ProgressKeys ==
    /\ \A k \in BagToSet(progress) :
        /\ k[1] \in DOMAIN users
        /\ k[2] \in DOMAIN tasks
        /\ CopiesIn(k, progress) = 1
    /\ (res.op = "CompleteTask" /\ ~res.missing
            /\ res.uid \notin DOMAIN users) =>
        /\ res.err # "none"
        /\ res.unchanged /\ res.copies = 0

\* CompleteTask failed for a stored task and an id that matches no user,
\* without a failure of the store itself, a stored user having an entry.
C39_Witness ==
    /\ res.op = "CompleteTask" /\ ~res.missing /\ ~res.fault
    /\ res.uid \notin DOMAIN users /\ res.err = "store"
    /\ CopiesIn(<<1, 1>>, progress) = 1

====
